---- MODULE Spec2Model ----
(***************************************************************************)
(* Model of the trace-analysis core of Stylus-Trace:                       *)
(*   - aggregator/stack_builder.rs  (build_collapsed_stacks)               *)
(*   - aggregator/metrics.rs        (calculate_hot_paths)                  *)
(*   - aggregator/metrics.rs        (calculate_gas_distribution)           *)
(*   - diff/normalizer.rs, diff/engine.rs (generate_diff and its deltas)   *)
(*   - diff/threshold.rs            (check_thresholds)                     *)
(*   - parser/stylus_trace.rs       (parse_trace)                          *)
(*                                                                         *)
(* Conventions.                                                            *)
(*  * u64 / i64 are modelled at a scaled width of WordBits bits: the       *)
(*    unsigned range is 0..U64Max, the signed range I64Min..I64Max, an     *)
(*    `as i64` cast reinterprets the top bit, unchecked arithmetic either  *)
(*    panics (overflow checks compiled in) or wraps modulo 2^WordBits.     *)
(*  * A `;`-joined stack string is modelled as the sequence of its         *)
(*    segments; joining is concatenation of segment sequences, so two      *)
(*    strings are equal exactly when their segment sequences are.          *)
(*  * An f64 percentage is modelled as the exact rational it approximates, *)
(*    a reduced fraction [num, den]; IEEE rounding is not modelled.        *)
(***************************************************************************)
EXTENDS Integers, Sequences, FiniteSets, TLC

VARIABLES
    overflow_checks,  \* build setting: TRUE = arithmetic overflow panics
    builder,          \* build_collapsed_stacks: input, loop state, result
    metrics,          \* calculate_hot_paths: arguments and result
    delta,            \* calculate_gas_delta / safe_percentage call
    hostio,           \* calculate_hostio_type_changes call
    hotpaths,         \* compare_hot_paths call
    diff,             \* generate_diff: both profiles and the result
    thresholds,       \* check_thresholds: the calls made on diff's report
    distribution,     \* calculate_gas_distribution: argument and result
    parse,            \* parse_trace: the raw trace and the parsed result
    command,          \* execute_capture / execute_diff: position and files
    profile_io,       \* write_profile / read_profile: the profile, the file, the result
    flame,            \* generate_flamegraph / generate_diff_flamegraph: the tree built
    analysis          \* analyze_storage_tax: the stacks, the stats collected, the insights

vars == <<overflow_checks, builder, metrics, delta, hostio, hotpaths, diff,
          thresholds, distribution, parse, command, profile_io, flame,
          analysis>>

(***************************************************************************)
(* Bounds                                                                  *)
(***************************************************************************)
WordBits == 20
MaxSteps == 3
MaxDepth == 1
MaxStacks == 3
MaxHotPaths == 2

(***************************************************************************)
(* Machine integers                                                        *)
(***************************************************************************)
U64Modulus == 2^WordBits
U64Max == U64Modulus - 1
I64Max == 2^(WordBits - 1) - 1
I64Min == 0 - 2^(WordBits - 1)

\* `x as i64` for x: u64 -- two's-complement reinterpretation, never panics
AsI64(x) == IF x > I64Max THEN x - U64Modulus ELSE x

\* wrap a mathematical integer into the i64 range
WrapI64(x) == ((x - I64Min) % U64Modulus) + I64Min

\* wrap a mathematical integer into the u64 range
WrapU64(x) == x % U64Modulus

NoValue == "None"
\* Option<String>::None, where Some(s) is the segment sequence of s
NoString == <<>>
\* Option<T> for non-string T: None, Some(x)
None == <<>>
Some(x) == <<x>>
Panic == "panic"

(***************************************************************************)
(* Exact rationals standing for f64 values                                 *)
(***************************************************************************)
Abs(x) == IF x < 0 THEN 0 - x ELSE x

RECURSIVE GCD(_, _)
GCD(a, b) == IF b = 0 THEN a ELSE GCD(b, a % b)

\* the f64 value n / d (d > 0), as a reduced fraction
F64(n, d) ==
    LET g == GCD(Abs(n), d)
    IN  [num |-> n \div g, den |-> d \div g]

F64Zero == [num |-> 0, den |-> 1]

(***************************************************************************)
(* parser/hostio.rs                                                        *)
(***************************************************************************)
\* str::to_uppercase on the vocabulary of operation names used here
ToUppercase(s) ==
    CASE s = "sload" -> "SLOAD"
      [] s = "sstore" -> "SSTORE"
      [] s = "call" -> "CALL"
      [] OTHER -> s

\* HostIoType::from_opcode: Some(type) or None
FromOpcode(op) ==
    LET u == ToUppercase(op)
    IN  CASE u = "SLOAD" -> "StorageLoad"
          [] u = "SSTORE" -> "StorageFlush"
          [] u \in {"LOG0", "LOG1", "LOG2", "LOG3", "LOG4"} -> "Log"
          [] u = "CALL" -> "Call"
          [] u = "STATICCALL" -> "StaticCall"
          [] u = "DELEGATECALL" -> "DelegateCall"
          [] u \in {"CREATE", "CREATE2"} -> "Create"
          [] u = "SELFDESTRUCT" -> "SelfDestruct"
          [] u = "BALANCE" -> "AccountBalance"
          [] u = "BLOCKHASH" -> "BlockHash"
          [] OTHER -> NoValue

\* map_hostio_to_label
MapHostioToLabel(io_type) ==
    CASE io_type = "StorageLoad" -> "storage_load_bytes32"
      [] io_type = "StorageStore" -> "storage_store_bytes32"
      [] io_type = "StorageFlush" -> "storage_flush_cache"
      [] io_type = "StorageCache" -> "storage_cache"
      [] io_type = "Call" -> "call"
      [] io_type = "StaticCall" -> "staticcall"
      [] io_type = "DelegateCall" -> "delegatecall"
      [] io_type = "Create" -> "create"
      [] io_type = "Log" -> "emit_log"
      [] io_type = "SelfDestruct" -> "selfdestruct"
      [] io_type = "AccountBalance" -> "account_balance"
      [] io_type = "BlockHash" -> "block_hash"
      [] OTHER -> "other"

(***************************************************************************)
(* aggregator/stack_builder.rs : build_collapsed_stacks                    *)
(***************************************************************************)
\* step.function.or(step.op).unwrap_or("unknown"), as its `;` segments
RawOp(step) ==
    IF step.function # NoString THEN step.function
    ELSE IF step.op # NoString THEN step.op
    ELSE <<"unknown">>

\* raw_op.split(';').next_back(): the last segment
OpPart(raw_op) == raw_op[Len(raw_op)]

\* the canonical operation label: alias table first, whole raw string else
Operation(step) ==
    LET raw_op == RawOp(step)
        io == FromOpcode(OpPart(raw_op))
    IN  IF io # NoValue THEN <<MapHostioToLabel(io)>> ELSE raw_op

\* a truncate that never pops the frames of returned calls
TruncateNever(call_stack, current_depth) == call_stack

\* call_stack.truncate(current_depth)
Truncate(call_stack, current_depth) ==
    IF current_depth < Len(call_stack)
    THEN SubSeq(call_stack, 1, current_depth)
    ELSE call_stack

\* a padding whose synthetic frames are named after nothing
PadCallsUnnamed(call_stack, current_depth) ==
    IF Len(call_stack) < current_depth
    THEN call_stack
            \o [i \in 1..(current_depth - Len(call_stack)) |-> "unknown"]
    ELSE call_stack

\* while call_stack.len() < current_depth { call_stack.push("call") }
PadCalls(call_stack, current_depth) ==
    IF Len(call_stack) < current_depth
    THEN call_stack \o [i \in 1..(current_depth - Len(call_stack)) |-> "call"]
    ELSE call_stack

\* the call stack after the depth adjustment for one step
AdjustDepth(call_stack, current_depth) ==
    PadCalls(Truncate(call_stack, current_depth), current_depth)

\* stack_str: call_stack.join(";") ++ ";" ++ operation (just operation when
\* the call stack is empty)
StackStr(call_stack, operation) == call_stack \o operation

\* stack_map.entry(stack_str).or_insert((0, 0))
EntryOrInsert(stack_map, stack_str) ==
    IF stack_str \in DOMAIN stack_map
    THEN stack_map[stack_str]
    ELSE [weight |-> 0, pc |-> 0]

\* the map with key k bound to v
MapInsert(m, k, v) ==
    [x \in (DOMAIN m) \cup {k} |-> IF x = k THEN v ELSE m[x]]

EmptyMap == [x \in {} |-> 0]

\* all orders in which a hash map may hand out the keys of S
IterationOrders(S) ==
    {f \in [1..Cardinality(S) -> S] : \A i, j \in DOMAIN f : f[i] = f[j] => i = j}

\* the comparator with its operands swapped: ascending order
WeightAscending(a, b) == a.weight < b.weight

\* the comparator of stacks.sort_by: TRUE when a must come before b
WeightDescending(a, b) == a.weight > b.weight

\* insert x into the sorted sequence s after every element that does not
\* have to come after it (stable insertion)
RECURSIVE InsertSorted(_, _)
InsertSorted(s, x) ==
    IF s = <<>> THEN <<x>>
    ELSE IF WeightDescending(x, s[1]) THEN <<x>> \o s
    ELSE <<s[1]>> \o InsertSorted(Tail(s), x)

\* slice::sort_by (stable) under WeightDescending
RECURSIVE SortBy(_)
SortBy(s) ==
    IF s = <<>> THEN <<>>
    ELSE InsertSorted(SortBy(SubSeq(s, 1, Len(s) - 1)), s[Len(s)])

\* CollapsedStack::new
CollapsedStack(stack, weight, last_pc) ==
    [stack |-> stack, weight |-> weight, last_pc |-> last_pc]

\* the inputs: execution steps
Depths == 0..MaxDepth
GasCosts == {0, 1, I64Max + 1}
StepSamples ==
    { [function |-> NoString, op |-> NoString, gas_cost |-> 0],
      [function |-> NoString, op |-> NoString, gas_cost |-> I64Max + 1],
      [function |-> <<"B">>, op |-> <<"A">>, gas_cost |-> 1],
      [function |-> NoString, op |-> <<"call", "SSTORE">>, gas_cost |-> 2],
      [function |-> <<"outer", "inner">>, op |-> NoString, gas_cost |-> 1] }

ExecutionSteps ==
    { [gas_cost |-> s.gas_cost, op |-> s.op, depth |-> d,
       function |-> s.function, pc |-> 4 * d]
        : s \in StepSamples, d \in Depths }

\* the worked example: depths [0,1,1,0], operations [A,B,C,D], any costs
ExampleDepths == <<0, 1, 1, 0>>
ExampleOps == <<"A", "B", "C", "D">>
ExampleTraces ==
    { [i \in 1..4 |-> [gas_cost |-> c[i], op |-> <<ExampleOps[i]>>,
                       depth |-> ExampleDepths[i], function |-> NoString,
                       pc |-> 4 * i]]
        : c \in [1..4 -> GasCosts] }

Traces ==
    (UNION {[1..n -> ExecutionSteps] : n \in 0..MaxSteps}) \cup ExampleTraces

\* entry of build_collapsed_stacks: empty map, empty call stack
BuilderStart(trace) ==
    [phase |-> "loop", execution_steps |-> trace, idx |-> 1,
     call_stack |-> <<>>, stack_map |-> EmptyMap, stack_strs |-> <<>>,
     stacks |-> <<>>]

\* one iteration of `for step in &parsed_trace.execution_steps`
ProcessStep ==
    /\ builder.phase = "loop"
    /\ builder.idx <= Len(builder.execution_steps)
    /\ LET step == builder.execution_steps[builder.idx]
           operation == Operation(step)
           call_stack == AdjustDepth(builder.call_stack, step.depth)
           stack_str == StackStr(call_stack, operation)
           entry == EntryOrInsert(builder.stack_map, stack_str)
           sum == entry.weight + step.gas_cost
       IN  IF sum > U64Max /\ overflow_checks
           THEN builder' = [builder EXCEPT !.phase = Panic,
                                           !.call_stack = call_stack]
           ELSE builder' =
                  [builder EXCEPT
                     !.idx = @ + 1,
                     !.call_stack = call_stack,
                     !.stack_strs = Append(@, stack_str),
                     !.stack_map = MapInsert(@, stack_str,
                                      [weight |-> WrapU64(sum), pc |-> step.pc])]
    /\ UNCHANGED <<overflow_checks, metrics, delta, hostio, hotpaths, diff,
                 thresholds, distribution, parse, command, profile_io, flame,
                 analysis>>

\* after the loop: collect the map in hash order, sort by weight descending
CollectAndSort ==
    /\ builder.phase = "loop"
    /\ builder.idx > Len(builder.execution_steps)
    /\ \E order \in IterationOrders(DOMAIN builder.stack_map) :
         LET collected ==
               [i \in DOMAIN order |->
                  CollapsedStack(order[i], builder.stack_map[order[i]].weight,
                                 Some(builder.stack_map[order[i]].pc))]
         IN  builder' = [builder EXCEPT !.phase = "done",
                                        !.stacks = SortBy(collected)]
    /\ UNCHANGED <<overflow_checks, metrics, delta, hostio, hotpaths, diff,
                 thresholds, distribution, parse, command, profile_io, flame,
                 analysis>>

Unused == [phase |-> "unused"]

InitBuild ==
    /\ overflow_checks \in BOOLEAN
    /\ \E trace \in Traces : builder = BuilderStart(trace)
    /\ metrics = Unused
    /\ delta = Unused
    /\ hostio = Unused
    /\ hotpaths = Unused
    /\ diff = Unused
    /\ thresholds = Unused
    /\ distribution = Unused
    /\ parse = Unused
    /\ command = Unused
    /\ profile_io = Unused
    /\ flame = Unused
    /\ analysis = Unused

NextBuild == ProcessStep \/ CollectAndSort

SpecBuild == InitBuild /\ [][NextBuild]_vars

(***************************************************************************)
(* Properties of build_collapsed_stacks                                    *)
(***************************************************************************)
BuilderDone == builder.phase = "done"

\* the set of path strings of the returned vector
ReturnedPaths == {builder.stacks[i].stack : i \in DOMAIN builder.stacks}

IsExampleTrace ==
    /\ builder.phase \in {"loop", "done"}
    /\ builder.execution_steps \in ExampleTraces

\* C1 (as stated): on depths [0,1,1,0] with labels [A,B,C,D] the distinct
\* collapsed paths are exactly A, A;B, A;C and D.
C1_PathsUnderFrameA ==
    (BuilderDone /\ IsExampleTrace) =>
        ReturnedPaths = {<<"A">>, <<"A", "B">>, <<"A", "C">>, <<"D">>}

\* C1 (amended): on depths [0,1,1,0] with labels [A,B,C,D] the distinct
\* collapsed paths are exactly A, call;B, call;C and D -- the depth-1 steps
\* sit under a synthetic `call` frame and the last depth-0 step starts from
\* an empty call stack again.
C1_PathsUnderSyntheticCall ==
    (BuilderDone /\ IsExampleTrace) =>
        /\ ReturnedPaths = {<<"A">>, <<"call", "B">>, <<"call", "C">>, <<"D">>}
        /\ Len(builder.stacks) = 4

C1_Witness ==
    /\ BuilderDone
    /\ IsExampleTrace
    /\ <<"call", "C">> \in ReturnedPaths
    /\ <<"D">> \in ReturnedPaths

RECURSIVE SumOver(_, _)
\* the mathematical sum of f over the index set S
SumOver(f, S) ==
    IF S = {} THEN 0
    ELSE LET i == CHOOSE x \in S : TRUE
         IN  f[i] + SumOver(f, S \ {i})

\* the mathematical sum of the costs of the steps whose path string is p
PathCostSum(p) ==
    SumOver([i \in DOMAIN builder.execution_steps |->
                builder.execution_steps[i].gas_cost],
            {i \in DOMAIN builder.stack_strs : builder.stack_strs[i] = p})

\* C2 (as stated): every returned weight is the sum of the costs of all
\* steps with that path, and the weights add up to the sum of all costs.
C2_WeightIsSumOfCosts ==
    BuilderDone =>
        /\ \A i \in DOMAIN builder.stacks :
              builder.stacks[i].weight = PathCostSum(builder.stacks[i].stack)
        /\ SumOver([i \in DOMAIN builder.stacks |-> builder.stacks[i].weight],
                   DOMAIN builder.stacks)
             = SumOver([i \in DOMAIN builder.execution_steps |->
                           builder.execution_steps[i].gas_cost],
                       DOMAIN builder.execution_steps)

\* C3: the returned vector has no two entries with the same path and is
\* ordered by weight non-increasing.
C3_UniqueAndSorted ==
    BuilderDone =>
        /\ \A i, j \in DOMAIN builder.stacks :
              builder.stacks[i].stack = builder.stacks[j].stack => i = j
        /\ \A i \in DOMAIN builder.stacks :
              i < Len(builder.stacks) =>
                 builder.stacks[i].weight >= builder.stacks[i + 1].weight

C3_Witness ==
    /\ BuilderDone
    /\ Len(builder.stacks) >= 3
    /\ builder.stacks[1].weight > builder.stacks[2].weight
    /\ builder.stacks[2].weight > builder.stacks[3].weight
    /\ \E i \in DOMAIN builder.stack_strs : i > 1 /\ i < Len(builder.stack_strs)
          /\ builder.stack_strs[i] = builder.stacks[1].stack

\* the vector build_collapsed_stacks returns when the map hands out its
\* keys in the given order
StacksForOrder(order) ==
    SortBy([i \in DOMAIN order |->
               CollapsedStack(order[i], builder.stack_map[order[i]].weight,
                              Some(builder.stack_map[order[i]].pc))])

\* C26 (as stated): the returned sequence is a function of the trace alone:
\* whatever order the map hands out its entries in, a run on this trace
\* returns the sequence this run returned, so stacks of equal weight always
\* come in the same order and the first N entries are the same on every run.
C26_Deterministic ==
    BuilderDone =>
        \A order \in IterationOrders(DOMAIN builder.stack_map) :
            StacksForOrder(order) = builder.stacks

\* the loop is about to process a step
AtStep ==
    /\ builder.phase = "loop"
    /\ builder.idx <= Len(builder.execution_steps)

RECURSIVE SeqSum(_)
\* the mathematical sum of a sequence of integers
SeqSum(s) == IF s = <<>> THEN 0 ELSE s[1] + SeqSum(Tail(s))

Min(a, b) == IF a < b THEN a ELSE b

\* Iterator::take(n) on a slice
Take(s, n) == SubSeq(s, 1, Min(n, Len(s)))

\* the source hint built from last_pc: Some(hint) or None
SourceHintOf(last_pc) ==
    IF last_pc = None THEN None
    ELSE Some([file |-> "unknown", line |-> None, column |-> None,
               function |-> Some(<<"0x", last_pc[1]>>)])

\* the percentage of create_hot_path
Percentage(weight, denominator) ==
    IF denominator > 0 THEN F64(weight * 100, denominator) ELSE F64Zero

\* create_hot_path
CreateHotPath(stack, denominator) ==
    [stack |-> stack.stack,
     gas |-> stack.weight,
     percentage |-> Percentage(stack.weight, denominator),
     source_hint |-> SourceHintOf(stack.last_pc)]

\* the inputs: stack lists, the ignored total_gas argument, top_n
StackNames == {<<"main", "execute">>, <<"main", "storage">>}
StackWeights == {0, 1, 23, I64Max + 2}
LastPcOf(stack) == IF stack = <<"main", "execute">> THEN Some(256) ELSE None
CollapsedStacks ==
    {CollapsedStack(n, w, LastPcOf(n)) : n \in StackNames, w \in StackWeights}
StackLists == UNION {[1..n -> CollapsedStacks] : n \in 0..MaxStacks}
TotalGasArgs == {0, 10000}
TopNs == 0..(MaxStacks + 1)

\* calculate_hot_paths(stacks, _total_gas, top_n)
CalculateHotPaths ==
    /\ metrics.phase = "call"
    /\ LET sum == SeqSum([i \in DOMAIN metrics.stacks |-> metrics.stacks[i].weight])
           execution_total == WrapU64(sum)
           taken == Take(metrics.stacks, metrics.top_n)
       IN  IF sum > U64Max /\ overflow_checks
           THEN metrics' = [metrics EXCEPT !.phase = Panic]
           ELSE metrics' =
                  [metrics EXCEPT
                     !.phase = "done",
                     !.hot_paths = [i \in DOMAIN taken |->
                                      CreateHotPath(taken[i], execution_total)]]
    /\ UNCHANGED <<overflow_checks, builder, delta, hostio, hotpaths, diff,
                 thresholds, distribution, parse, command, profile_io, flame,
                 analysis>>

InitMetrics ==
    /\ overflow_checks \in BOOLEAN
    /\ \E stacks \in StackLists, total_gas \in TotalGasArgs, top_n \in TopNs :
         metrics = [phase |-> "call", stacks |-> stacks, total_gas |-> total_gas,
                    top_n |-> top_n, hot_paths |-> <<>>]
    /\ builder = Unused
    /\ delta = Unused
    /\ hostio = Unused
    /\ hotpaths = Unused
    /\ diff = Unused
    /\ thresholds = Unused
    /\ distribution = Unused
    /\ parse = Unused
    /\ command = Unused
    /\ profile_io = Unused
    /\ flame = Unused
    /\ analysis = Unused

NextMetrics == CalculateHotPaths

SpecMetrics == InitMetrics /\ [][NextMetrics]_vars

(***************************************************************************)
(* Properties of calculate_hot_paths                                       *)
(***************************************************************************)
MetricsDone == metrics.phase = "done"

\* the mathematical sum of the weights of all input stacks
FullWeightSum ==
    SeqSum([i \in DOMAIN metrics.stacks |-> metrics.stacks[i].weight])

\* the least common multiple of the denominators of a sequence of fractions
RECURSIVE DenLcm(_)
DenLcm(ps) ==
    IF ps = <<>> THEN 1
    ELSE LET l == DenLcm(Tail(ps))
         IN  (l \div GCD(l, ps[1].den)) * ps[1].den

\* the sum of the fractions ps is at most bound
FractionSumAtMost(ps, bound) ==
    LET l == DenLcm(ps)
    IN  SeqSum([i \in DOMAIN ps |-> ps[i].num * (l \div ps[i].den)]) <= bound * l

\* C4 (as stated): the result is the first min(top_n, len) input entries in
\* input order, gas = weight, percentage = weight / (sum of all input
\* weights) x 100 (0 when that sum is 0) whatever total_gas is, and the
\* returned percentages sum to at most 100.
C4_PrefixWithFullSetPercentages ==
    MetricsDone =>
        /\ Len(metrics.hot_paths) = Min(metrics.top_n, Len(metrics.stacks))
        /\ \A i \in DOMAIN metrics.hot_paths :
              /\ metrics.hot_paths[i].stack = metrics.stacks[i].stack
              /\ metrics.hot_paths[i].gas = metrics.stacks[i].weight
              /\ metrics.hot_paths[i].percentage =
                    IF FullWeightSum = 0 THEN F64Zero
                    ELSE F64(metrics.stacks[i].weight * 100, FullWeightSum)
        /\ FractionSumAtMost(
              [i \in DOMAIN metrics.hot_paths |-> metrics.hot_paths[i].percentage],
              100)

(***************************************************************************)
(* diff/normalizer.rs : safe_percentage, calculate_gas_delta               *)
(***************************************************************************)
\* the f64 NaN (0.0 / 0.0)
NaN == [num |-> 0, den |-> 0]

\* the plain ratio, without the factor 100
SafeRatio(change, baseline) ==
    IF baseline = 0 THEN F64Zero ELSE F64(change, baseline)

\* the percentage without the zero-baseline guard
SafePercentageUnguarded(change, baseline) ==
    IF baseline = 0
    THEN (IF change = 0 THEN NaN ELSE [num |-> change, den |-> 0])
    ELSE F64(change * 100, baseline)

\* safe_percentage(change: i64, baseline: u64) -> f64
SafePercentage(change, baseline) ==
    IF baseline = 0 THEN F64Zero ELSE F64(change * 100, baseline)

\* the mathematical value of (target as i64) - (baseline as i64)
SignedDifference(baseline, target) == AsI64(target) - AsI64(baseline)

\* TRUE when an i64 operation with mathematical result x overflows
OverflowsI64(x) == x < I64Min \/ x > I64Max

\* calculate_gas_delta, for an execution that does not panic
CalculateGasDelta(baseline, target) ==
    LET absolute_change == WrapI64(SignedDifference(baseline, target))
    IN  [baseline |-> baseline,
         target |-> target,
         absolute_change |-> absolute_change,
         percent_change |-> SafePercentage(absolute_change, baseline)]

\* the inputs
U64Samples == {0, 1, 100, 150000, 210000, I64Max, I64Max + 1, U64Max}
I64Samples == {0 - 25, 0, 10, 50, I64Min, I64Max}

\* a call of calculate_gas_delta(baseline, target)
CallCalculateGasDelta ==
    /\ delta.phase = "call"
    /\ delta.fn = "calculate_gas_delta"
    /\ IF OverflowsI64(SignedDifference(delta.baseline, delta.target))
          /\ overflow_checks
       THEN delta' = [delta EXCEPT !.phase = Panic]
       ELSE delta' = [delta EXCEPT
                        !.phase = "done",
                        !.result = CalculateGasDelta(delta.baseline, delta.target)]
    /\ UNCHANGED <<overflow_checks, builder, metrics, hostio, hotpaths, diff,
                 thresholds, distribution, parse, command, profile_io, flame,
                 analysis>>

\* a call of safe_percentage(change, baseline)
CallSafePercentage ==
    /\ delta.phase = "call"
    /\ delta.fn = "safe_percentage"
    /\ delta' = [delta EXCEPT
                   !.phase = "done",
                   !.result = SafePercentage(delta.change, delta.baseline)]
    /\ UNCHANGED <<overflow_checks, builder, metrics, hostio, hotpaths, diff,
                 thresholds, distribution, parse, command, profile_io, flame,
                 analysis>>

InitDelta ==
    /\ overflow_checks \in BOOLEAN
    /\ \/ \E b \in U64Samples, t \in U64Samples :
            delta = [phase |-> "call", fn |-> "calculate_gas_delta",
                     baseline |-> b, target |-> t, change |-> 0, result |-> None]
       \/ \E c \in I64Samples, b \in U64Samples :
            delta = [phase |-> "call", fn |-> "safe_percentage",
                     baseline |-> b, target |-> 0, change |-> c, result |-> None]
    /\ builder = Unused
    /\ metrics = Unused
    /\ hostio = Unused
    /\ hotpaths = Unused
    /\ diff = Unused
    /\ thresholds = Unused
    /\ distribution = Unused
    /\ parse = Unused
    /\ command = Unused
    /\ profile_io = Unused
    /\ flame = Unused
    /\ analysis = Unused

NextDelta == CallCalculateGasDelta \/ CallSafePercentage

SpecDelta == InitDelta /\ [][NextDelta]_vars

(***************************************************************************)
(* Properties of calculate_gas_delta and safe_percentage                   *)
(***************************************************************************)
GasDeltaDone == delta.phase = "done" /\ delta.fn = "calculate_gas_delta"
SafePercentageDone == delta.phase = "done" /\ delta.fn = "safe_percentage"

\* C7 (as stated): absolute_change is the mathematical difference
\* target - baseline for all unsigned totals, percent_change is
\* absolute_change / baseline x 100 (0 for baseline 0), and 150000 -> 210000
\* gives 60000 and 40.
C7_AbsoluteChangeIsDifference ==
    GasDeltaDone =>
        /\ delta.result.absolute_change = delta.target - delta.baseline
        /\ delta.result.percent_change =
              IF delta.baseline = 0 THEN F64Zero
              ELSE F64(delta.result.absolute_change * 100, delta.baseline)
        /\ (delta.baseline = 150000 /\ delta.target = 210000) =>
              /\ delta.result.absolute_change = 60000
              /\ delta.result.percent_change = [num |-> 40, den |-> 1]

Sign(x) == IF x > 0 THEN 1 ELSE IF x < 0 THEN 0 - 1 ELSE 0

\* C8: safe_percentage returns 0 for every change when baseline is 0, and
\* otherwise the fraction change x 100 / baseline with the sign of change;
\* (50, 100) gives 50 and (-25, 100) gives -25.
C8_SafePercentage ==
    SafePercentageDone =>
        /\ delta.baseline = 0 => delta.result = F64Zero
        /\ delta.baseline # 0 =>
              /\ delta.result.den > 0
              /\ delta.baseline % delta.result.den = 0
              /\ delta.result.num * (delta.baseline \div delta.result.den)
                    = delta.change * 100
              /\ GCD(Abs(delta.result.num), delta.result.den) = 1
              /\ Sign(delta.result.num) = Sign(delta.change)
        /\ (delta.change = 50 /\ delta.baseline = 100) =>
              delta.result = [num |-> 50, den |-> 1]
        /\ (delta.change = 0 - 25 /\ delta.baseline = 100) =>
              delta.result = [num |-> 0 - 25, den |-> 1]

C8_Witness ==
    /\ SafePercentageDone
    /\ delta.change = 0 - 25
    /\ delta.baseline = 100
    /\ delta.result.num < 0

(***************************************************************************)
(* diff/normalizer.rs : calculate_hostio_type_changes                      *)
(***************************************************************************)
\* *map.get(key).unwrap_or(&0)
GetOrZero(map, key) == IF key \in DOMAIN map THEN map[key] ELSE 0

\* the keys of both maps (all_types)
AllTypes(baseline_types, target_types) ==
    (DOMAIN baseline_types) \cup (DOMAIN target_types)

\* the entry computed for one HostIO type
HostIoTypeChange(baseline_types, target_types, hostio_type) ==
    LET baseline == GetOrZero(baseline_types, hostio_type)
        target == GetOrZero(target_types, hostio_type)
    IN  [baseline |-> baseline,
         target |-> target,
         delta |-> WrapI64(SignedDifference(baseline, target))]

\* `delta != 0 || baseline > 0 || target > 0`
IsIncluded(change) ==
    change.delta # 0 \/ change.baseline > 0 \/ change.target > 0

\* calculate_hostio_type_changes, for an execution that does not panic
CalculateHostioTypeChanges(baseline_types, target_types) ==
    LET all_types == AllTypes(baseline_types, target_types)
        included ==
          {ty \in all_types :
              IsIncluded(HostIoTypeChange(baseline_types, target_types, ty))}
    IN  [ty \in included |-> HostIoTypeChange(baseline_types, target_types, ty)]

\* TRUE when some per-type subtraction overflows i64
TypeChangesOverflow(baseline_types, target_types) ==
    \E ty \in AllTypes(baseline_types, target_types) :
        OverflowsI64(SignedDifference(GetOrZero(baseline_types, ty),
                                      GetOrZero(target_types, ty)))

\* the inputs: by_type maps
Categories == {"storage_load", "storage_store", "call"}
CountSamples == {0, 8, 10, U64Max}
ByTypeMaps == UNION {[S -> CountSamples] : S \in SUBSET Categories}

\* a call of calculate_hostio_type_changes(baseline_types, target_types)
CallCalculateHostioTypeChanges ==
    /\ hostio.phase = "call"
    /\ IF TypeChangesOverflow(hostio.baseline_types, hostio.target_types)
          /\ overflow_checks
       THEN hostio' = [hostio EXCEPT !.phase = Panic]
       ELSE hostio' =
              [hostio EXCEPT
                 !.phase = "done",
                 !.changes = CalculateHostioTypeChanges(hostio.baseline_types,
                                                        hostio.target_types)]
    /\ UNCHANGED <<overflow_checks, builder, metrics, delta, hotpaths, diff,
                 thresholds, distribution, parse, command, profile_io, flame,
                 analysis>>

InitHostio ==
    /\ overflow_checks \in BOOLEAN
    /\ \E b \in ByTypeMaps, t \in ByTypeMaps :
         hostio = [phase |-> "call", baseline_types |-> b, target_types |-> t,
                   changes |-> EmptyMap]
    /\ builder = Unused
    /\ metrics = Unused
    /\ delta = Unused
    /\ hotpaths = Unused
    /\ diff = Unused
    /\ thresholds = Unused
    /\ distribution = Unused
    /\ parse = Unused
    /\ command = Unused
    /\ profile_io = Unused
    /\ flame = Unused
    /\ analysis = Unused

NextHostio == CallCalculateHostioTypeChanges

SpecHostio == InitHostio /\ [][NextHostio]_vars

\* C9 (as stated): the map ranges over the union of the keys of both sides,
\* a missing side counts as 0, delta = target - baseline, and a category is
\* in the map iff its delta or one of its counts is non-zero.
C9_TypeChangesOverUnion ==
    hostio.phase = "done" =>
        /\ DOMAIN hostio.changes \subseteq
              AllTypes(hostio.baseline_types, hostio.target_types)
        /\ \A ty \in Categories :
              LET b == GetOrZero(hostio.baseline_types, ty)
                  t == GetOrZero(hostio.target_types, ty)
              IN  /\ ty \in DOMAIN hostio.changes <=>
                        (t - b # 0 \/ b > 0 \/ t > 0)
                  /\ ty \in DOMAIN hostio.changes =>
                        hostio.changes[ty] =
                           [baseline |-> b, target |-> t, delta |-> t - b]

(***************************************************************************)
(* diff/normalizer.rs : compare_hot_paths                                  *)
(***************************************************************************)
\* the stack strings of a hot-path list
StacksOf(paths) == {paths[i].stack : i \in DOMAIN paths}

\* the first entry of paths with the given stack
FirstWithStack(paths, stack) ==
    paths[CHOOSE i \in DOMAIN paths :
            /\ paths[i].stack = stack
            /\ \A j \in DOMAIN paths : paths[j].stack = stack => i <= j]

\* the last entry of paths with the given stack
LastWithStack(paths, stack) ==
    paths[CHOOSE i \in DOMAIN paths :
            /\ paths[i].stack = stack
            /\ \A j \in DOMAIN paths : paths[j].stack = stack => j <= i]

\* paths.iter().map(|hp| (hp.stack.as_str(), hp)).collect::<HashMap>():
\* a later entry replaces an earlier one with the same stack
PathMap(paths) == [stack \in StacksOf(paths) |-> LastWithStack(paths, stack)]

\* the comparison pushed for one common stack
HotPathComparison(stack, baseline_path, target_path) ==
    LET baseline_gas == baseline_path.gas
        target_gas == target_path.gas
        gas_change == WrapI64(SignedDifference(baseline_gas, target_gas))
    IN  [stack |-> stack,
         baseline_gas |-> baseline_gas,
         target_gas |-> target_gas,
         gas_change |-> gas_change,
         percent_change |-> SafePercentage(gas_change, baseline_gas)]

\* paths.iter().filter(|hp| !other_map.contains_key(hp.stack)).cloned()
OnlyIn(paths, other_map) ==
    SelectSeq(paths, LAMBDA hp : hp.stack \notin DOMAIN other_map)

\* compare_hot_paths, for an execution that does not panic; order is the
\* order in which baseline_map hands out its keys
CompareHotPaths(baseline_paths, target_paths, order) ==
    LET baseline_map == PathMap(baseline_paths)
        target_map == PathMap(target_paths)
        common == SelectSeq(order, LAMBDA stack : stack \in DOMAIN target_map)
    IN  [common_paths |->
            [i \in DOMAIN common |->
               HotPathComparison(common[i], baseline_map[common[i]],
                                 target_map[common[i]])],
         baseline_only |-> OnlyIn(baseline_paths, target_map),
         target_only |-> OnlyIn(target_paths, baseline_map)]

\* TRUE when the gas subtraction of some common path overflows i64
HotPathsOverflow(baseline_paths, target_paths) ==
    \E stack \in StacksOf(baseline_paths) \cap StacksOf(target_paths) :
        OverflowsI64(SignedDifference(PathMap(baseline_paths)[stack].gas,
                                      PathMap(target_paths)[stack].gas))

\* the inputs: hot-path lists
HotPathStacks == {<<"main", "func_a">>, <<"main", "func_b">>, <<"main", "func_c">>}
HotPathGas == {100, U64Max}
HotPaths ==
    {[stack |-> st, gas |-> g, percentage |-> F64(50, 1), source_hint |-> None]
        : st \in HotPathStacks, g \in HotPathGas}
HotPathLists == UNION {[1..n -> HotPaths] : n \in 0..MaxHotPaths}

\* a call of compare_hot_paths(baseline_paths, target_paths)
CallCompareHotPaths ==
    /\ hotpaths.phase = "call"
    /\ IF HotPathsOverflow(hotpaths.baseline_paths, hotpaths.target_paths)
          /\ overflow_checks
       THEN hotpaths' = [hotpaths EXCEPT !.phase = Panic]
       ELSE \E order \in IterationOrders(StacksOf(hotpaths.baseline_paths)) :
              hotpaths' =
                [hotpaths EXCEPT
                   !.phase = "done",
                   !.result = CompareHotPaths(hotpaths.baseline_paths,
                                              hotpaths.target_paths, order)]
    /\ UNCHANGED <<overflow_checks, builder, metrics, delta, hostio, diff,
                 thresholds, distribution, parse, command, profile_io, flame,
                 analysis>>

InitHotPaths ==
    /\ overflow_checks \in BOOLEAN
    /\ \E b \in HotPathLists, t \in HotPathLists :
         hotpaths = [phase |-> "call", baseline_paths |-> b, target_paths |-> t,
                     result |-> None]
    /\ builder = Unused
    /\ metrics = Unused
    /\ delta = Unused
    /\ hostio = Unused
    /\ diff = Unused
    /\ thresholds = Unused
    /\ distribution = Unused
    /\ parse = Unused
    /\ command = Unused
    /\ profile_io = Unused
    /\ flame = Unused
    /\ analysis = Unused

NextHotPaths == CallCompareHotPaths

SpecHotPaths == InitHotPaths /\ [][NextHotPaths]_vars

\* no stack string occurs twice in the list
UniqueStacks(paths) ==
    \A i, j \in DOMAIN paths : paths[i].stack = paths[j].stack => i = j

\* the number of entries of list whose stack is st
Occurrences(list, st) == Cardinality({i \in DOMAIN list : list[i].stack = st})

\* C10 (as stated): with unique stacks per profile, every baseline path is in
\* exactly one of common_paths / baseline_only, every target path in exactly
\* one of common_paths / target_only, no stack is in two of the three lists,
\* and a common entry carries both gas values and
\* gas_change = target_gas - baseline_gas.
C10_HotPathsPartition ==
    (/\ hotpaths.phase = "done"
     /\ UniqueStacks(hotpaths.baseline_paths)
     /\ UniqueStacks(hotpaths.target_paths)) =>
        LET r == hotpaths.result
            b == hotpaths.baseline_paths
            t == hotpaths.target_paths
        IN  /\ \A st \in StacksOf(b) :
                  Occurrences(r.common_paths, st)
                     + Occurrences(r.baseline_only, st) = 1
            /\ \A st \in StacksOf(t) :
                  Occurrences(r.common_paths, st)
                     + Occurrences(r.target_only, st) = 1
            /\ StacksOf(r.common_paths) = StacksOf(b) \cap StacksOf(t)
            /\ StacksOf(r.baseline_only) = StacksOf(b) \ StacksOf(t)
            /\ StacksOf(r.target_only) = StacksOf(t) \ StacksOf(b)
            /\ \A i \in DOMAIN r.common_paths :
                  LET c == r.common_paths[i]
                  IN  /\ c.baseline_gas = FirstWithStack(b, c.stack).gas
                      /\ c.target_gas = FirstWithStack(t, c.stack).gas
                      /\ c.gas_change = c.target_gas - c.baseline_gas

(***************************************************************************)
(* diff/normalizer.rs, diff/engine.rs : generate_diff                      *)
(***************************************************************************)
\* the error with the two versions in the opposite order
CheckCompatibilitySwapped(baseline, target) ==
    IF baseline.version # target.version
    THEN Some([err |-> "IncompatibleVersions",
               v1 |-> target.version, v2 |-> baseline.version])
    ELSE None

\* check_compatibility: None for Ok(()), Some(e) for Err(e) with
\* e = IncompatibleVersions(baseline.version, target.version)
CheckCompatibility(baseline, target) ==
    IF baseline.version # target.version
    THEN Some([err |-> "IncompatibleVersions",
               v1 |-> baseline.version, v2 |-> target.version])
    ELSE None

\* a comparison of the hot paths as well
AreProfilesIdenticalWithHotPaths(baseline, target) ==
    /\ baseline.transaction_hash = target.transaction_hash
    /\ baseline.total_gas = target.total_gas
    /\ baseline.hot_paths = target.hot_paths

\* are_profiles_identical
AreProfilesIdentical(baseline, target) ==
    /\ baseline.transaction_hash = target.transaction_hash
    /\ baseline.total_gas = target.total_gas

\* calculate_hostio_delta, for an execution that does not panic
CalculateHostioDelta(baseline_summary, target_summary) ==
    LET baseline_total_calls == baseline_summary.total_calls
        target_total_calls == target_summary.total_calls
        total_calls_change ==
          WrapI64(SignedDifference(baseline_total_calls, target_total_calls))
        baseline_total_gas == baseline_summary.total_hostio_gas
        target_total_gas == target_summary.total_hostio_gas
        gas_change ==
          WrapI64(SignedDifference(baseline_total_gas, target_total_gas))
    IN  [baseline_total_calls |-> baseline_total_calls,
         target_total_calls |-> target_total_calls,
         total_calls_change |-> total_calls_change,
         total_calls_percent_change |->
            SafePercentage(total_calls_change, baseline_total_calls),
         by_type_changes |->
            CalculateHostioTypeChanges(baseline_summary.by_type,
                                       target_summary.by_type),
         baseline_total_gas |-> baseline_total_gas,
         target_total_gas |-> target_total_gas,
         gas_change |-> gas_change,
         gas_percent_change |-> SafePercentage(gas_change, baseline_total_gas)]

\* ProfileMetadata of a profile
ProfileMetadata(profile) ==
    [transaction_hash |-> profile.transaction_hash,
     total_gas |-> profile.total_gas,
     generated_at |-> profile.generated_at]

IdenticalWarning == "Baseline and target profiles are identical"

\* the DiffSummary built by generate_diff
InitialSummary(baseline, target) ==
    [has_regressions |-> FALSE,
     violation_count |-> 0,
     status |-> "PASSED",
     warning |-> IF AreProfilesIdentical(baseline, target)
                 THEN Some(IdenticalWarning) ELSE None]

\* the DiffReport of generate_diff once the versions are compatible, for an
\* execution that does not panic
DiffReport(baseline, target, order) ==
    [diff_version |-> "1.0.0",
     generated_at |-> "now",
     baseline |-> ProfileMetadata(baseline),
     target |-> ProfileMetadata(target),
     deltas |->
        [gas |-> CalculateGasDelta(baseline.total_gas, target.total_gas),
         hostio |-> CalculateHostioDelta(baseline.hostio_summary,
                                         target.hostio_summary),
         hot_paths |-> CompareHotPaths(baseline.hot_paths, target.hot_paths,
                                       order)],
     threshold_violations |-> <<>>,
     summary |-> InitialSummary(baseline, target)]

\* TRUE when one of the i64 subtractions of generate_diff overflows
DiffOverflows(baseline, target) ==
    \/ OverflowsI64(SignedDifference(baseline.total_gas, target.total_gas))
    \/ OverflowsI64(SignedDifference(baseline.hostio_summary.total_calls,
                                     target.hostio_summary.total_calls))
    \/ OverflowsI64(SignedDifference(baseline.hostio_summary.total_hostio_gas,
                                     target.hostio_summary.total_hostio_gas))
    \/ TypeChangesOverflow(baseline.hostio_summary.by_type,
                           target.hostio_summary.by_type)
    \/ HotPathsOverflow(baseline.hot_paths, target.hot_paths)

\* the inputs: profiles
Versions == {"1.0.0", "2.0.0"}
TransactionHashes == {"0xaaa", "0xbbb"}
TotalGasSamples == {0, U64Max}
TotalCallsSamples == {0, 25}
ProfileByTypeMaps == {EmptyMap, [ty \in {"storage_load"} |-> 10]}
HostIoSummaries ==
    {[total_calls |-> n, by_type |-> m, total_hostio_gas |-> 45000]
        : n \in TotalCallsSamples, m \in ProfileByTypeMaps}
ProfileHotPaths ==
    {[stack |-> <<"main", "func_a">>, gas |-> 100,
      percentage |-> F64(50, 1), source_hint |-> None],
     [stack |-> <<"main", "func_b">>, gas |-> U64Max,
      percentage |-> F64(50, 1), source_hint |-> None]}
ProfileHotPathLists == UNION {[1..n -> ProfileHotPaths] : n \in 0..MaxHotPaths}
Profiles ==
    {[version |-> v, transaction_hash |-> h, total_gas |-> g,
      hostio_summary |-> hs, hot_paths |-> hp, all_stacks |-> None,
      generated_at |-> "2025-02-14T10:00:00Z"]
        : v \in Versions, h \in TransactionHashes, g \in TotalGasSamples,
          hs \in HostIoSummaries, hp \in ProfileHotPathLists}

\* generate_diff(baseline, target)
GenerateDiff ==
    /\ diff.phase = "call"
    /\ LET compat == CheckCompatibility(diff.baseline, diff.target)
       IN  IF compat # None
           THEN diff' = [diff EXCEPT !.phase = "err", !.error = compat]
           ELSE IF DiffOverflows(diff.baseline, diff.target) /\ overflow_checks
           THEN diff' = [diff EXCEPT !.phase = Panic]
           ELSE \E order \in IterationOrders(StacksOf(diff.baseline.hot_paths)) :
                  diff' = [diff EXCEPT
                             !.phase = "ok",
                             !.report = Some(DiffReport(diff.baseline,
                                                        diff.target, order))]
    /\ UNCHANGED <<overflow_checks, builder, metrics, delta, hostio, hotpaths,
                 thresholds, distribution, parse, command, profile_io, flame,
                 analysis>>

InitDiff ==
    /\ overflow_checks \in BOOLEAN
    /\ \E b \in Profiles, t \in Profiles :
         diff = [phase |-> "call", baseline |-> b, target |-> t,
                 error |-> None, report |-> None]
    /\ builder = Unused
    /\ metrics = Unused
    /\ delta = Unused
    /\ hostio = Unused
    /\ hotpaths = Unused
    /\ thresholds = Unused
    /\ distribution = Unused
    /\ parse = Unused
    /\ command = Unused
    /\ profile_io = Unused
    /\ flame = Unused
    /\ analysis = Unused

NextDiff == GenerateDiff

SpecDiff == InitDiff /\ [][NextDiff]_vars

(***************************************************************************)
(* Properties of generate_diff                                             *)
(***************************************************************************)
\* C5: when the versions differ generate_diff returns IncompatibleVersions
\* with the baseline version first and the target version second and no
\* report; when they are equal it never returns this error.
C5_IncompatibleVersions ==
    diff.phase # "call" =>
        /\ diff.baseline.version # diff.target.version =>
              /\ diff.phase = "err"
              /\ diff.error = Some([err |-> "IncompatibleVersions",
                                    v1 |-> diff.baseline.version,
                                    v2 |-> diff.target.version])
              /\ diff.report = None
        /\ diff.baseline.version = diff.target.version =>
              /\ diff.phase # "err"
              /\ diff.error = None

C5_Witness ==
    /\ diff.phase = "err"
    /\ diff.baseline.version = "1.0.0"
    /\ diff.target.version = "2.0.0"
    /\ diff.error # None

\* every entry of a percentage / change pair is zero
ZeroChange(change, percent) == change = 0 /\ percent = F64Zero

\* C6: generate_diff(p, p) succeeds, sets the identical-profiles warning and
\* yields all-zero deltas: cost, HostIO calls and cost, every category of the
\* per-category map, every common hot path; no baseline-only or target-only
\* paths.
C6_SelfDiffIsZero ==
    (diff.phase # "call" /\ diff.baseline = diff.target) =>
        /\ diff.phase = "ok"
        /\ LET r == diff.report[1]
           IN  /\ r.summary.warning = Some(IdenticalWarning)
               /\ ZeroChange(r.deltas.gas.absolute_change,
                             r.deltas.gas.percent_change)
               /\ ZeroChange(r.deltas.hostio.total_calls_change,
                             r.deltas.hostio.total_calls_percent_change)
               /\ ZeroChange(r.deltas.hostio.gas_change,
                             r.deltas.hostio.gas_percent_change)
               /\ \A ty \in DOMAIN r.deltas.hostio.by_type_changes :
                     r.deltas.hostio.by_type_changes[ty].delta = 0
               /\ \A i \in DOMAIN r.deltas.hot_paths.common_paths :
                     ZeroChange(r.deltas.hot_paths.common_paths[i].gas_change,
                                r.deltas.hot_paths.common_paths[i].percent_change)
               /\ r.deltas.hot_paths.baseline_only = <<>>
               /\ r.deltas.hot_paths.target_only = <<>>

C6_Witness ==
    /\ diff.phase = "ok"
    /\ diff.baseline = diff.target
    /\ diff.baseline.total_gas = U64Max
    /\ diff.baseline.hostio_summary.total_calls = 0
    /\ DOMAIN diff.report[1].deltas.hostio.by_type_changes # {}
    /\ Len(diff.report[1].deltas.hot_paths.common_paths) = 2

MaxChecks == 2

\* a > b on f64; a comparison with a NaN is false
F64Gt(a, b) == a.den > 0 /\ b.den > 0 /\ a.num * b.den > b.num * a.den

\* `x as f64` for an integer x
AsF64(x) == F64(x, 1)

\* `x as u64` for x: i64
AsU64(x) == IF x < 0 THEN x + U64Modulus ELSE x

\* the percent test with >= in place of >
GasPercentCheckInclusive(gas_delta, gas_thresholds) ==
    IF gas_thresholds.max_increase_percent = None THEN <<>>
    ELSE LET max_percent == gas_thresholds.max_increase_percent[1]
         IN  IF ~F64Gt(max_percent, gas_delta.percent_change)
             THEN << [metric |-> <<"gas.max_increase_percent">>,
                      threshold |-> max_percent,
                      actual |-> gas_delta.percent_change,
                      severity |-> "error"] >>
             ELSE <<>>

\* check_gas_thresholds, "Check percentage increase": the violations pushed
GasPercentCheck(gas_delta, gas_thresholds) ==
    IF gas_thresholds.max_increase_percent = None THEN <<>>
    ELSE LET max_percent == gas_thresholds.max_increase_percent[1]
         IN  IF F64Gt(gas_delta.percent_change, max_percent)
             THEN << [metric |-> <<"gas.max_increase_percent">>,
                      threshold |-> max_percent,
                      actual |-> gas_delta.percent_change,
                      severity |-> "error"] >>
             ELSE <<>>

\* the absolute test without the `absolute_change > 0` conjunct
GasAbsoluteCheckUnsigned(gas_delta, gas_thresholds) ==
    IF gas_thresholds.max_increase_absolute = None THEN <<>>
    ELSE LET max_absolute == gas_thresholds.max_increase_absolute[1]
         IN  IF AsU64(gas_delta.absolute_change) > max_absolute
             THEN << [metric |-> <<"gas.max_increase_absolute">>,
                      threshold |-> AsF64(max_absolute),
                      actual |-> AsF64(gas_delta.absolute_change),
                      severity |-> "error"] >>
             ELSE <<>>

\* check_gas_thresholds, "Check absolute increase": the violations pushed
GasAbsoluteCheck(gas_delta, gas_thresholds) ==
    IF gas_thresholds.max_increase_absolute = None THEN <<>>
    ELSE LET max_absolute == gas_thresholds.max_increase_absolute[1]
         IN  IF /\ gas_delta.absolute_change > 0
                /\ AsU64(gas_delta.absolute_change) > max_absolute
             THEN << [metric |-> <<"gas.max_increase_absolute">>,
                      threshold |-> AsF64(max_absolute),
                      actual |-> AsF64(gas_delta.absolute_change),
                      severity |-> "error"] >>
             ELSE <<>>

\* check_gas_thresholds: the violations it pushes, in order
CheckGasThresholds(gas_delta, gas_thresholds) ==
    GasPercentCheck(gas_delta, gas_thresholds)
        \o GasAbsoluteCheck(gas_delta, gas_thresholds)

\* check_hostio_thresholds, "Check total calls percentage"
TotalCallsCheck(hostio_delta, hostio_thresholds) ==
    IF hostio_thresholds.max_total_calls_increase_percent = None THEN <<>>
    ELSE LET max_percent ==
               hostio_thresholds.max_total_calls_increase_percent[1]
         IN  IF F64Gt(hostio_delta.total_calls_percent_change, max_percent)
             THEN << [metric |-> <<"hostio.max_total_calls_increase_percent">>,
                      threshold |-> max_percent,
                      actual |-> hostio_delta.total_calls_percent_change,
                      severity |-> "error"] >>
             ELSE <<>>

\* the per-type test without the `change.delta > 0` conjunct
LimitCheckUnsigned(hostio_delta, hostio_type, max_increase) ==
    IF hostio_type \notin DOMAIN hostio_delta.by_type_changes THEN <<>>
    ELSE LET change == hostio_delta.by_type_changes[hostio_type]
         IN  IF AsU64(change.delta) > max_increase
             THEN << [metric |->
                         <<"hostio.limits.", hostio_type, "_max_increase">>,
                      threshold |-> AsF64(max_increase),
                      actual |-> AsF64(change.delta),
                      severity |-> "error"] >>
             ELSE <<>>

\* check_hostio_thresholds: the body of the loop over `limits` for one
\* (hostio_type, max_increase) entry
LimitCheck(hostio_delta, hostio_type, max_increase) ==
    IF hostio_type \notin DOMAIN hostio_delta.by_type_changes THEN <<>>
    ELSE LET change == hostio_delta.by_type_changes[hostio_type]
         IN  IF change.delta > 0 /\ AsU64(change.delta) > max_increase
             THEN << [metric |->
                         <<"hostio.limits.", hostio_type, "_max_increase">>,
                      threshold |-> AsF64(max_increase),
                      actual |-> AsF64(change.delta),
                      severity |-> "error"] >>
             ELSE <<>>

\* the loop `for (hostio_type, max_increase) in limits`; order is the order
\* in which the map hands out its keys
RECURSIVE LimitChecks(_, _, _)
LimitChecks(hostio_delta, limits, order) ==
    IF order = <<>> THEN <<>>
    ELSE LimitCheck(hostio_delta, Head(order), limits[Head(order)])
            \o LimitChecks(hostio_delta, limits, Tail(order))

\* the keys of the configured limits (none when limits is None)
LimitKeys(hostio_thresholds) ==
    IF hostio_thresholds.limits = None THEN {}
    ELSE DOMAIN hostio_thresholds.limits[1]

\* check_hostio_thresholds: the violations it pushes, in order
CheckHostioThresholds(hostio_delta, hostio_thresholds, order) ==
    TotalCallsCheck(hostio_delta, hostio_thresholds)
        \o (IF hostio_thresholds.limits = None THEN <<>>
            ELSE LimitChecks(hostio_delta, hostio_thresholds.limits[1], order))

\* the hot-path violation with severity "error"
HotPathCheckAsError(comparison, max_percent) ==
    IF F64Gt(comparison.percent_change, max_percent)
    THEN << [metric |-> <<"hot_paths.">> \o comparison.stack,
             threshold |-> max_percent,
             actual |-> comparison.percent_change,
             severity |-> "error"] >>
    ELSE <<>>

\* check_hot_path_thresholds: the body of the loop over common_paths
HotPathCheck(comparison, max_percent) ==
    IF F64Gt(comparison.percent_change, max_percent)
    THEN << [metric |-> <<"hot_paths.">> \o comparison.stack,
             threshold |-> max_percent,
             actual |-> comparison.percent_change,
             severity |-> "warning"] >>
    ELSE <<>>

\* the loop `for comparison in &hot_paths_delta.common_paths`
RECURSIVE HotPathChecks(_, _)
HotPathChecks(common_paths, max_percent) ==
    IF common_paths = <<>> THEN <<>>
    ELSE HotPathCheck(Head(common_paths), max_percent)
            \o HotPathChecks(Tail(common_paths), max_percent)

\* check_hot_path_thresholds: the violations it pushes, in order
CheckHotPathThresholds(hot_paths_delta, hp_thresholds) ==
    IF hp_thresholds.warn_individual_increase_percent = None THEN <<>>
    ELSE HotPathChecks(hot_paths_delta.common_paths,
                       hp_thresholds.warn_individual_increase_percent[1])

\* violations.iter().filter(|v| v.severity == severity).count()
CountSeverity(violations, severity) ==
    Cardinality({i \in DOMAIN violations : violations[i].severity = severity})

\* the summary with has_regressions set by any violation
CreateSummaryAnyViolation(violations) ==
    LET error_count == CountSeverity(violations, "error")
        warning_count == CountSeverity(violations, "warning")
    IN  [has_regressions |-> Len(violations) > 0,
         violation_count |-> Len(violations),
         status |-> IF error_count > 0 THEN "FAILED"
                    ELSE IF warning_count > 0 THEN "WARNING"
                    ELSE "PASSED",
         warning |-> None]

\* create_summary
CreateSummary(violations) ==
    LET error_count == CountSeverity(violations, "error")
        warning_count == CountSeverity(violations, "warning")
    IN  [has_regressions |-> error_count > 0,
         violation_count |-> Len(violations),
         status |-> IF error_count > 0 THEN "FAILED"
                    ELSE IF warning_count > 0 THEN "WARNING"
                    ELSE "PASSED",
         warning |-> None]

\* check_thresholds: the local `violations` once the three checks have run
CollectViolations(report, config, order) ==
    CheckGasThresholds(report.deltas.gas, config.gas)
        \o CheckHostioThresholds(report.deltas.hostio, config.hostio, order)
        \o (IF config.hot_paths = None THEN <<>>
            ELSE CheckHotPathThresholds(report.deltas.hot_paths,
                                        config.hot_paths[1]))

\* the violations appended to those the report already holds
AccumulateViolations(report, violations) ==
    [report EXCEPT
       !.threshold_violations = report.threshold_violations \o violations,
       !.summary = CreateSummary(report.threshold_violations \o violations)]

\* check_thresholds, "Update diff report"
UpdateDiffReport(report, violations) ==
    [report EXCEPT
       !.threshold_violations = violations,
       !.summary = CreateSummary(violations)]

\* the inputs: threshold configurations
GasThresholdSamples ==
    { [max_increase_percent |-> None, max_increase_absolute |-> None],
      [max_increase_percent |-> Some(F64(10, 1)),
       max_increase_absolute |-> None],
      [max_increase_percent |-> None, max_increase_absolute |-> Some(50000)],
      [max_increase_percent |-> None, max_increase_absolute |-> Some(60000)],
      [max_increase_percent |-> Some(F64(10, 1)),
       max_increase_absolute |-> Some(50000)] }
LimitSamples ==
    { [ty \in {"storage_load"} |-> 5],
      [ty \in {"storage_load_max_increase"} |-> 5],
      [ty \in {"storage_load", "storage_store"} |->
          IF ty = "storage_load" THEN 12 ELSE 0] }
HostIOThresholdSamples ==
    { [max_total_calls_increase_percent |-> None, limits |-> None],
      [max_total_calls_increase_percent |-> Some(F64(20, 1)),
       limits |-> None] }
    \cup { [max_total_calls_increase_percent |-> None, limits |-> Some(l)]
              : l \in LimitSamples }
HotPathThresholdSamples ==
    { None,
      Some([warn_individual_increase_percent |-> None]),
      Some([warn_individual_increase_percent |-> Some(F64(10, 1))]) }
ThresholdConfigs ==
    { [gas |-> g, hostio |-> h, hot_paths |-> hp]
        : g \in GasThresholdSamples, h \in HostIOThresholdSamples,
          hp \in HotPathThresholdSamples }

\* the inputs: the profiles that are compared
ThresholdHotPath(stack, gas) ==
    [stack |-> stack, gas |-> gas, percentage |-> F64(50, 1),
     source_hint |-> None]
ThresholdProfile(hash, gas, calls, by_type, hot_paths) ==
    [version |-> "1.0.0", transaction_hash |-> hash, total_gas |-> gas,
     hostio_summary |-> [total_calls |-> calls, by_type |-> by_type,
                         total_hostio_gas |-> 45000],
     hot_paths |-> hot_paths, all_stacks |-> None,
     generated_at |-> "2025-02-14T10:00:00Z"]
ThresholdProfiles ==
    { ThresholdProfile("0xaaa", 150000, 10,
                       [ty \in {"storage_load"} |-> 10],
                       << ThresholdHotPath(<<"main", "func_a">>, 100),
                          ThresholdHotPath(<<"main", "func_b">>, 100) >>),
      ThresholdProfile("0xbbb", 210000, 25,
                       [ty \in {"storage_load", "call"} |->
                           IF ty = "storage_load" THEN 22 ELSE 3],
                       << ThresholdHotPath(<<"main", "func_a">>, 150),
                          ThresholdHotPath(<<"main", "func_c">>, 400) >>),
      ThresholdProfile("0xbbb", 165000, 12,
                       [ty \in {"storage_load"} |-> 15],
                       << ThresholdHotPath(<<"main", "func_a">>, 110),
                          ThresholdHotPath(<<"main", "func_b">>, 200) >>),
      ThresholdProfile("0xaaa", U64Max, 0, EmptyMap, <<>>) }

\* check_thresholds(&mut diff, &config) on the report generate_diff returned
CheckThresholds ==
    /\ diff.phase = "ok"
    /\ thresholds.phase = "idle"
    /\ thresholds.calls < MaxChecks
    /\ \E config \in ThresholdConfigs :
         \E order \in IterationOrders(LimitKeys(config.hostio)) :
            LET violations == CollectViolations(diff.report[1], config, order)
            IN  /\ diff' = [diff EXCEPT
                              !.report = Some(UpdateDiffReport(diff.report[1],
                                                               violations))]
                /\ thresholds' = [thresholds EXCEPT
                                    !.calls = thresholds.calls + 1,
                                    !.repeated =
                                        (thresholds.config = Some(config)),
                                    !.config = Some(config),
                                    !.returned = violations]
    /\ UNCHANGED <<overflow_checks, builder, metrics, delta, hostio, hotpaths,
                   distribution, parse, command, profile_io, flame, analysis>>

InitThreshold ==
    /\ overflow_checks \in BOOLEAN
    /\ \E b \in ThresholdProfiles, t \in ThresholdProfiles :
         diff = [phase |-> "call", baseline |-> b, target |-> t,
                 error |-> None, report |-> None]
    /\ thresholds = [phase |-> "idle", calls |-> 0, config |-> None,
                     repeated |-> FALSE, returned |-> <<>>]
    /\ builder = Unused
    /\ metrics = Unused
    /\ delta = Unused
    /\ hostio = Unused
    /\ hotpaths = Unused
    /\ distribution = Unused
    /\ parse = Unused
    /\ command = Unused
    /\ profile_io = Unused
    /\ flame = Unused
    /\ analysis = Unused

NextThreshold == GenerateDiff \/ CheckThresholds

SpecThreshold == InitThreshold /\ [][NextThreshold]_vars

(***************************************************************************)
(* Properties of check_thresholds                                          *)
(***************************************************************************)
\* check_thresholds has been applied to the report at least once
Checked == diff.phase = "ok" /\ thresholds.calls >= 1
CheckedReport == diff.report[1]
CheckedConfig == thresholds.config[1]

\* the positions of the violations with the given metric
ViolationsAt(violations, metric) ==
    {i \in DOMAIN violations : violations[i].metric = metric}

\* C11: with a cost percent ceiling configured there is exactly one
\* gas.max_increase_percent violation (threshold = ceiling, actual =
\* percent_change, severity error) and the status is FAILED when
\* percent_change > ceiling, and no such violation when percent_change is
\* equal to or below the ceiling; ceiling 10 with an increase of 40 fires.
C11_GasPercentViolation ==
    (Checked /\ CheckedConfig.gas.max_increase_percent # None) =>
        LET ceiling == CheckedConfig.gas.max_increase_percent[1]
            actual == CheckedReport.deltas.gas.percent_change
            v == CheckedReport.threshold_violations
            hits == ViolationsAt(v, <<"gas.max_increase_percent">>)
        IN  /\ actual.num * ceiling.den > ceiling.num * actual.den =>
                  /\ Cardinality(hits) = 1
                  /\ \A i \in hits :
                        v[i] = [metric |-> <<"gas.max_increase_percent">>,
                                threshold |-> ceiling,
                                actual |-> actual,
                                severity |-> "error"]
                  /\ CheckedReport.summary.status = "FAILED"
            /\ actual.num * ceiling.den <= ceiling.num * actual.den =>
                  hits = {}
            /\ (ceiling = [num |-> 10, den |-> 1]
                  /\ actual = [num |-> 40, den |-> 1]) =>
                  \E i \in hits : /\ v[i].threshold = [num |-> 10, den |-> 1]
                                  /\ v[i].actual = [num |-> 40, den |-> 1]

C11_Witness ==
    /\ Checked
    /\ CheckedConfig.gas.max_increase_percent = Some([num |-> 10, den |-> 1])
    /\ CheckedReport.deltas.gas.percent_change = [num |-> 40, den |-> 1]
    /\ Len(CheckedReport.threshold_violations) = 1
    /\ CheckedReport.summary.status = "FAILED"

\* C12: with an absolute cost limit configured there is exactly one
\* gas.max_increase_absolute violation (threshold = limit, actual =
\* absolute_change) when absolute_change is positive and > limit, and none
\* otherwise, whatever the percent check did; limit 50000 with an increase of
\* 60000 fires.
C12_GasAbsoluteViolation ==
    (Checked /\ CheckedConfig.gas.max_increase_absolute # None) =>
        LET limit == CheckedConfig.gas.max_increase_absolute[1]
            change == CheckedReport.deltas.gas.absolute_change
            v == CheckedReport.threshold_violations
            hits == ViolationsAt(v, <<"gas.max_increase_absolute">>)
        IN  /\ (change > 0 /\ change > limit) =>
                  /\ Cardinality(hits) = 1
                  /\ \A i \in hits :
                        v[i] = [metric |-> <<"gas.max_increase_absolute">>,
                                threshold |-> [num |-> limit, den |-> 1],
                                actual |-> [num |-> change, den |-> 1],
                                severity |-> "error"]
            /\ (change <= 0 \/ change <= limit) => hits = {}
            /\ (limit = 50000 /\ change = 60000) => hits # {}

\* one diff holding both cost violations
C12_Witness ==
    /\ Checked
    /\ CheckedConfig.gas.max_increase_absolute = Some(50000)
    /\ CheckedReport.deltas.gas.absolute_change = 60000
    /\ ViolationsAt(CheckedReport.threshold_violations,
                    <<"gas.max_increase_absolute">>) # {}
    /\ ViolationsAt(CheckedReport.threshold_violations,
                    <<"gas.max_increase_percent">>) # {}

\* C13: for every limit configured under a key of hostio.limits there is
\* exactly one error violation hostio.limits.<key>_max_increase (threshold =
\* limit, actual = delta) when the delta map has the key as a category with a
\* positive delta > limit, and none when the delta is zero, negative, not
\* above the limit, or the key is absent from the delta map.
C13_PerCategoryLimits ==
    (Checked /\ CheckedConfig.hostio.limits # None) =>
        LET limits == CheckedConfig.hostio.limits[1]
            changes == CheckedReport.deltas.hostio.by_type_changes
            v == CheckedReport.threshold_violations
        IN  \A key \in DOMAIN limits :
              LET metric == <<"hostio.limits.", key, "_max_increase">>
                  hits == ViolationsAt(v, metric)
                  fires == /\ key \in DOMAIN changes
                           /\ changes[key].delta > 0
                           /\ changes[key].delta > limits[key]
              IN  /\ fires =>
                        /\ Cardinality(hits) = 1
                        /\ \A i \in hits :
                              v[i] = [metric |-> metric,
                                      threshold |->
                                         [num |-> limits[key], den |-> 1],
                                      actual |->
                                         [num |-> changes[key].delta,
                                          den |-> 1],
                                      severity |-> "error"]
                  /\ ~fires => hits = {}

C13_Witness ==
    /\ Checked
    /\ CheckedConfig.hostio.limits = Some([ty \in {"storage_load"} |-> 5])
    /\ "storage_load" \in DOMAIN CheckedReport.deltas.hostio.by_type_changes
    /\ CheckedReport.deltas.hostio.by_type_changes["storage_load"].delta = 12
    /\ \E i \in DOMAIN CheckedReport.threshold_violations :
          /\ CheckedReport.threshold_violations[i].metric =
                <<"hostio.limits.", "storage_load", "_max_increase">>
          /\ CheckedReport.threshold_violations[i].actual =
                [num |-> 12, den |-> 1]

\* the pieces of a metric that contain the text storage_load
ContainsStorageLoad(metric) ==
    \E i \in DOMAIN metric :
        metric[i] \in {"storage_load", "storage_load_max_increase"}

\* C14 (as stated): with the limit storage_load_max_increase = 5 and
\* storage_load going from 10 to 22 calls, the report holds a violation whose
\* metric contains storage_load, with threshold 5 and actual 12.
C14_DocumentedLimitKey ==
    (/\ Checked
     /\ CheckedConfig.hostio.limits =
           Some([ty \in {"storage_load_max_increase"} |-> 5])
     /\ "storage_load" \in DOMAIN CheckedReport.deltas.hostio.by_type_changes
     /\ CheckedReport.deltas.hostio.by_type_changes["storage_load"].baseline = 10
     /\ CheckedReport.deltas.hostio.by_type_changes["storage_load"].target = 22)
    =>
        \E i \in DOMAIN thresholds.returned :
            /\ ContainsStorageLoad(thresholds.returned[i].metric)
            /\ thresholds.returned[i].threshold = [num |-> 5, den |-> 1]
            /\ thresholds.returned[i].actual = [num |-> 12, den |-> 1]

\* the positions of the hot-path violations
HotPathViolations(violations) ==
    {i \in DOMAIN violations : violations[i].metric[1] = "hot_paths."}

\* C15: with a hot-path ceiling configured, every common path whose
\* percent_change > ceiling has exactly one violation, of severity warning,
\* every other common path has none, every hot-path violation belongs to a
\* common path (never to a new or disappeared one), and when all violations
\* are hot-path violations the status is WARNING with has_regressions false.
C15_HotPathWarnings ==
    (/\ Checked
     /\ CheckedConfig.hot_paths # None
     /\ CheckedConfig.hot_paths[1].warn_individual_increase_percent # None) =>
        LET ceiling == CheckedConfig.hot_paths[1].warn_individual_increase_percent[1]
            hp == CheckedReport.deltas.hot_paths
            v == CheckedReport.threshold_violations
            hot == HotPathViolations(v)
        IN  /\ \A c \in DOMAIN hp.common_paths :
                  LET path == hp.common_paths[c]
                      hits == ViolationsAt(v, <<"hot_paths.">> \o path.stack)
                  IN  IF path.percent_change.num * ceiling.den
                            > ceiling.num * path.percent_change.den
                      THEN /\ Cardinality(hits) = 1
                           /\ \A i \in hits :
                                 /\ v[i].severity = "warning"
                                 /\ v[i].threshold = ceiling
                                 /\ v[i].actual = path.percent_change
                      ELSE hits = {}
            /\ \A i \in hot :
                  /\ v[i].severity = "warning"
                  /\ \E c \in DOMAIN hp.common_paths :
                        v[i].metric = <<"hot_paths.">> \o hp.common_paths[c].stack
                  /\ \A b \in DOMAIN hp.baseline_only :
                        v[i].metric # <<"hot_paths.">> \o hp.baseline_only[b].stack
                  /\ \A t \in DOMAIN hp.target_only :
                        v[i].metric # <<"hot_paths.">> \o hp.target_only[t].stack
            /\ (hot # {} /\ hot = DOMAIN v) =>
                  /\ CheckedReport.summary.status = "WARNING"
                  /\ CheckedReport.summary.has_regressions = FALSE

C15_Witness ==
    /\ Checked
    /\ CheckedReport.summary.status = "WARNING"
    /\ HotPathViolations(CheckedReport.threshold_violations) # {}
    /\ CheckedReport.deltas.hot_paths.target_only # <<>>
    /\ CheckedReport.deltas.hot_paths.baseline_only # <<>>

\* C16: after every check_thresholds call the status is FAILED iff some
\* violation has severity error, WARNING iff none has severity error and some
\* has severity warning, PASSED iff there is no violation; has_regressions
\* iff some violation has severity error; violation_count is the number of
\* violations.
C16_SummaryFollowsViolations ==
    Checked =>
        LET v == CheckedReport.threshold_violations
            s == CheckedReport.summary
            anyError == \E i \in DOMAIN v : v[i].severity = "error"
            anyWarning == \E i \in DOMAIN v : v[i].severity = "warning"
        IN  /\ s.status = "FAILED" <=> anyError
            /\ s.status = "WARNING" <=> (~anyError /\ anyWarning)
            /\ s.status = "PASSED" <=> v = <<>>
            /\ s.has_regressions <=> anyError
            /\ s.violation_count = Len(v)

C16_Witness ==
    /\ Checked
    /\ CheckedReport.summary.status = "FAILED"
    /\ CheckedReport.summary.violation_count >= 3
    /\ \E i \in DOMAIN CheckedReport.threshold_violations :
          CheckedReport.threshold_violations[i].severity = "warning"

\* the set of the entries of a violation list
ViolationSet(violations) == {violations[i] : i \in DOMAIN violations}

\* C17: a further check_thresholds call leaves the deltas alone and replaces
\* the violations by those of its own config (they are also what it returns);
\* with the config of the call before, the set of violations, the
\* violation_count and the status are those the report already had.
C17_Idempotent ==
    [][(diff.phase = "ok" /\ thresholds.calls >= 1
          /\ thresholds'.calls = thresholds.calls + 1) =>
        LET before == diff.report[1]
            after == diff'.report[1]
            config == thresholds'.config[1]
        IN  /\ after.deltas = before.deltas
            /\ after.threshold_violations = thresholds'.returned
            /\ \E order \in IterationOrders(LimitKeys(config.hostio)) :
                  after.threshold_violations =
                     CollectViolations(
                        [before EXCEPT !.threshold_violations = <<>>],
                        config, order)
            /\ thresholds'.config = thresholds.config =>
                  /\ ViolationSet(after.threshold_violations)
                        = ViolationSet(before.threshold_violations)
                  /\ after.summary.violation_count
                        = before.summary.violation_count
                  /\ after.summary.status = before.summary.status
                  /\ Len(after.threshold_violations)
                        = Len(before.threshold_violations)]_vars

C17_Witness ==
    /\ Checked
    /\ thresholds.calls = 2
    /\ thresholds.repeated
    /\ Len(CheckedReport.threshold_violations) >= 2

\* C29 (as stated): a check_thresholds call changes nothing of the report
\* but the violation list and the summary fields has_regressions,
\* violation_count and status: the warning generate_diff stored in the
\* summary, the deltas and both metadata snapshots are as before the call.
C29_FrameOfCheckThresholds ==
    [][(diff.phase = "ok" /\ thresholds'.calls = thresholds.calls + 1) =>
        LET before == diff.report[1]
            after == diff'.report[1]
        IN  /\ after.summary.warning = before.summary.warning
            /\ after.deltas = before.deltas
            /\ after.baseline = before.baseline
            /\ after.target = before.target
            /\ after.diff_version = before.diff_version
            /\ after.generated_at = before.generated_at]_vars

(***************************************************************************)
(* aggregator/metrics.rs : calculate_gas_distribution                      *)
(***************************************************************************)
\* insertion of x into an ascending sequence of integers
RECURSIVE InsertAscending(_, _)
InsertAscending(s, x) ==
    IF s = <<>> THEN <<x>>
    ELSE IF x <= Head(s) THEN <<x>> \o s
    ELSE <<Head(s)>> \o InsertAscending(Tail(s), x)

\* weights.sort_unstable(): the ascending permutation of the values
RECURSIVE SortUnstable(_)
SortUnstable(s) ==
    IF s = <<>> THEN <<>>
    ELSE InsertAscending(SortUnstable(Tail(s)), Head(s))

\* stacks.iter().map(|s| s.weight).collect()
WeightsOf(stacks) == [i \in DOMAIN stacks |-> stacks[i].weight]

\* the lower of the two middle elements for an even count
MedianLowerMiddle(weights) ==
    IF weights = <<>> THEN 0 ELSE weights[(Len(weights) + 1) \div 2]

\* `weights[weights.len() / 2]` on the sorted weights (indices from 0 in the
\* code, from 1 here)
MedianOf(weights) ==
    IF weights = <<>> THEN 0 ELSE weights[(Len(weights) \div 2) + 1]

\* (count as f64 * 0.1).ceil() as usize
Top10PercentCount(count) == (count + 9) \div 10

\* GasDistribution::default()
GasDistributionDefault ==
    [total_gas |-> 0, stack_count |-> 0, mean_gas_per_stack |-> 0,
     median_gas_per_stack |-> 0, top_10_percent_percentage |-> F64Zero]

\* calculate_gas_distribution, for an execution that does not panic
GasDistribution(stacks) ==
    IF stacks = <<>> THEN GasDistributionDefault
    ELSE LET total == WrapU64(SeqSum(WeightsOf(stacks)))
             count == Len(stacks)
             weights == SortUnstable(WeightsOf(stacks))
             top_10_percent_gas ==
               WrapU64(SeqSum(WeightsOf(Take(stacks, Top10PercentCount(count)))))
         IN  [total_gas |-> total,
              stack_count |-> count,
              mean_gas_per_stack |-> total \div count,
              median_gas_per_stack |-> MedianOf(weights),
              top_10_percent_percentage |->
                 IF total > 0 THEN F64(top_10_percent_gas * 100, total)
                 ELSE F64Zero]

\* calculate_gas_distribution(stacks)
CalculateGasDistribution ==
    /\ distribution.phase = "call"
    /\ IF SeqSum(WeightsOf(distribution.stacks)) > U64Max /\ overflow_checks
       THEN distribution' = [distribution EXCEPT !.phase = Panic]
       ELSE distribution' =
              [distribution EXCEPT
                 !.phase = "done",
                 !.result = Some(GasDistribution(distribution.stacks))]
    /\ UNCHANGED <<overflow_checks, builder, metrics, delta, hostio, hotpaths,
                   diff, thresholds, parse, command, profile_io, flame,
                   analysis>>

InitDistribution ==
    /\ overflow_checks \in BOOLEAN
    /\ \E stacks \in StackLists :
         distribution = [phase |-> "call", stacks |-> stacks, result |-> None]
    /\ builder = Unused
    /\ metrics = Unused
    /\ delta = Unused
    /\ hostio = Unused
    /\ hotpaths = Unused
    /\ diff = Unused
    /\ thresholds = Unused
    /\ parse = Unused
    /\ command = Unused
    /\ profile_io = Unused
    /\ flame = Unused
    /\ analysis = Unused

NextDistribution == CalculateGasDistribution

SpecDistribution == InitDistribution /\ [][NextDistribution]_vars

(***************************************************************************)
(* Properties of calculate_gas_distribution                                *)
(***************************************************************************)
DistributionDone ==
    distribution.phase = "done" /\ distribution.stacks # <<>>

\* the number of stacks lighter than m / not heavier than m
LighterThan(stacks, m) ==
    Cardinality({i \in DOMAIN stacks : stacks[i].weight < m})
NotHeavierThan(stacks, m) ==
    Cardinality({i \in DOMAIN stacks : stacks[i].weight <= m})

\* m is the k-th smallest weight of stacks (k from 1)
IsKthSmallest(stacks, m, k) ==
    /\ \E i \in DOMAIN stacks : stacks[i].weight = m
    /\ LighterThan(stacks, m) < k
    /\ NotHeavierThan(stacks, m) >= k

\* C18 (as stated): for an even number 2k of stacks the median is the lower
\* of the two middle elements (the k-th smallest weight); for an odd number
\* 2k+1 it is the middle element (the (k+1)-th smallest).
C18_MedianLowerMiddle ==
    DistributionDone =>
        LET n == Len(distribution.stacks)
            m == distribution.result[1].median_gas_per_stack
        IN  IF n % 2 = 0
            THEN IsKthSmallest(distribution.stacks, m, n \div 2)
            ELSE IsKthSmallest(distribution.stacks, m, (n \div 2) + 1)

\* C18 (amended): for an even number 2k of stacks the median is the upper of
\* the two middle elements (the (k+1)-th smallest weight), never their
\* average; for an odd number 2k+1 it is the middle element.
C18_MedianUpperMiddle ==
    DistributionDone =>
        LET n == Len(distribution.stacks)
            m == distribution.result[1].median_gas_per_stack
        IN  IsKthSmallest(distribution.stacks, m, (n \div 2) + 1)

C18_Witness ==
    /\ DistributionDone
    /\ Len(distribution.stacks) = 2
    /\ distribution.stacks[1].weight = 23
    /\ distribution.stacks[2].weight = 1
    /\ distribution.result[1].median_gas_per_stack = 23

(***************************************************************************)
(* parser/stylus_trace.rs : parse_trace                                    *)
(*                                                                         *)
(* A serde_json::Value is modelled as a record [type, val]: type is one of *)
(* "null", "number", "string", "array", "object"; val is the integer of a  *)
(* number, the character (or segment) sequence of a string, the sequence   *)
(* of the items of an array, the key -> value function of an object.       *)
(* A Result is [ok |-> TRUE, val |-> v] or [ok |-> FALSE, val |-> error].  *)
(***************************************************************************)
JsonNull == [type |-> "null", val |-> 0]
JsonNumber(n) == [type |-> "number", val |-> n]
JsonString(chars) == [type |-> "string", val |-> chars]
JsonArray(items) == [type |-> "array", val |-> items]
JsonObject(fields) == [type |-> "object", val |-> fields]

Ok(v) == [ok |-> TRUE, val |-> v]
Err(e) == [ok |-> FALSE, val |-> e]

\* utils/config.rs (not part of the sources at hand)
GAS_FIELD_NAMES == <<"gas", "gasUsed", "gas_used", "totalGas", "total_gas">>
STEP_FIELD_NAMES == <<"structLogs", "steps", "result">>
GAS_TO_INK_MULTIPLIER == 10000
MAX_REASONABLE_GAS == 100000

\* a.saturating_mul(b) on u64
SaturatingMul(a, b) == IF a * b > U64Max THEN U64Max ELSE a * b

\* a.saturating_sub(b) on u64
SaturatingSub(a, b) == IF a < b THEN 0 ELSE a - b

\* the digits of a radix, in order of value
Digits == <<"0", "1", "2", "3", "4", "5", "6", "7", "8", "9",
            "a", "b", "c", "d", "e", "f">>
UpperDigits == <<"0", "1", "2", "3", "4", "5", "6", "7", "8", "9",
                 "A", "B", "C", "D", "E", "F">>

\* char::to_digit(radix): None for a character that is no digit of the radix
ToDigit(c, radix) ==
    IF \E i \in 1..radix : Digits[i] = c \/ UpperDigits[i] = c
    THEN Some((CHOOSE i \in 1..radix : Digits[i] = c \/ UpperDigits[i] = c) - 1)
    ELSE None

\* the digit loop of u64::from_str_radix: None on an invalid digit or on
\* overflow
RECURSIVE AccumulateDigits(_, _, _)
AccumulateDigits(chars, radix, acc) ==
    IF chars = <<>> THEN Some(acc)
    ELSE LET d == ToDigit(Head(chars), radix)
         IN  IF d = None THEN None
             ELSE IF acc * radix + d[1] > U64Max THEN None
             ELSE AccumulateDigits(Tail(chars), radix, acc * radix + d[1])

\* u64::from_str_radix(src, radix) / str::parse::<u64>(): an optional
\* leading `+`, then at least one digit
FromStrRadix(chars, radix) ==
    LET digits == IF chars # <<>> /\ Head(chars) = "+" THEN Tail(chars)
                  ELSE chars
    IN  IF digits = <<>> THEN None
        ELSE AccumulateDigits(digits, radix, 0)

\* value.strip_prefix("0x")
StripPrefix0x(chars) ==
    IF Len(chars) >= 2 /\ chars[1] = "0" /\ chars[2] = "x"
    THEN Some(SubSeq(chars, 3, Len(chars)))
    ELSE None

\* parse_gas_value
ParseGasValue(value) ==
    LET hex_str == StripPrefix0x(value)
    IN  IF hex_str # None
        THEN (IF FromStrRadix(hex_str[1], 16) = None
              THEN Err("Invalid hex gas value")
              ELSE Ok(FromStrRadix(hex_str[1], 16)[1]))
        ELSE (IF FromStrRadix(value, 10) = None
              THEN Err("Invalid decimal gas value")
              ELSE Ok(FromStrRadix(value, 10)[1]))

\* Value::as_u64
AsU64Value(val) ==
    IF val.type = "number" /\ val.val >= 0 /\ val.val <= U64Max
    THEN Some(val.val) ELSE None

\* parse_json_u64
ParseJsonU64(val) ==
    IF AsU64Value(val) # None THEN Ok(AsU64Value(val)[1])
    ELSE IF val.type = "string" THEN ParseGasValue(val.val)
    ELSE Err("Expected number or string")

\* the closure of find_map in extract_total_gas for one field name
GasFieldValue(trace_obj, field) ==
    IF field \notin DOMAIN trace_obj THEN None
    ELSE IF ParseJsonU64(trace_obj[field]).ok
    THEN Some(ParseJsonU64(trace_obj[field]).val)
    ELSE None

\* GAS_FIELD_NAMES.iter().find_map(..) from position i on
RECURSIVE FindMapGas(_, _)
FindMapGas(trace_obj, i) ==
    IF i > Len(GAS_FIELD_NAMES) THEN None
    ELSE IF GasFieldValue(trace_obj, GAS_FIELD_NAMES[i]) # None
    THEN GasFieldValue(trace_obj, GAS_FIELD_NAMES[i])
    ELSE FindMapGas(trace_obj, i + 1)

\* extract_total_gas: always Ok
ExtractTotalGas(trace_obj) ==
    LET gas == FindMapGas(trace_obj, 1)
    IN  IF gas # None THEN Ok(gas[1]) ELSE Ok(0)

\* normalize_to_ink
NormalizeToInk(value, is_already_ink) ==
    IF is_already_ink THEN value
    ELSE IF value < MAX_REASONABLE_GAS
    THEN SaturatingMul(value, GAS_TO_INK_MULTIPLIER)
    ELSE value

\* detect_trace_format: Ok([trace_obj, format]) or Err
DetectTraceFormat(raw_trace) ==
    IF raw_trace.type = "object"
    THEN Ok([trace_obj |-> raw_trace.val,
             format |-> IF /\ "result" \in DOMAIN raw_trace.val
                           /\ raw_trace.val["result"].type = "array"
                        THEN "StylusTracer" ELSE "StandardEvm"])
    ELSE IF raw_trace.type = "array"
    THEN Ok([trace_obj |-> [k \in {"steps", "gasUsed"} |->
                              IF k = "steps" THEN raw_trace ELSE JsonNumber(0)],
             format |-> "StylusTracer"])
    ELSE Err("Trace must be a JSON object or array")

\* the keys of obj among the accepted names of one field
PresentNames(obj, names) == names \cap DOMAIN obj

\* the value found for a field (exactly one of its names is present)
FieldValue(obj, names) == obj[CHOOSE k \in PresentNames(obj, names) : TRUE]

\* a `u64` field with #[serde(default)]: Ok(0) when absent, Err on two
\* names of the same field or on a value that is no u64
U64Field(obj, names) ==
    IF PresentNames(obj, names) = {} THEN Ok(0)
    ELSE IF Cardinality(PresentNames(obj, names)) > 1
    THEN Err("duplicate field")
    ELSE IF AsU64Value(FieldValue(obj, names)) = None
    THEN Err("invalid type")
    ELSE Ok(AsU64Value(FieldValue(obj, names))[1])

\* an `Option<u64>` field with #[serde(default)]: null is None
OptionU64Field(obj, names) ==
    IF PresentNames(obj, names) = {} THEN Ok(None)
    ELSE IF Cardinality(PresentNames(obj, names)) > 1
    THEN Err("duplicate field")
    ELSE IF FieldValue(obj, names).type = "null" THEN Ok(None)
    ELSE IF AsU64Value(FieldValue(obj, names)) = None
    THEN Err("invalid type")
    ELSE Ok(Some(AsU64Value(FieldValue(obj, names))[1]))

\* an `Option<String>` field with #[serde(default)]: null is None
OptionStringField(obj, names) ==
    IF PresentNames(obj, names) = {} THEN Ok(NoString)
    ELSE IF Cardinality(PresentNames(obj, names)) > 1
    THEN Err("duplicate field")
    ELSE IF FieldValue(obj, names).type = "null" THEN Ok(NoString)
    ELSE IF FieldValue(obj, names).type # "string" THEN Err("invalid type")
    ELSE Ok(FieldValue(obj, names).val)

\* serde_json::from_value::<ExecutionStep>(step_value) for a step_value that
\* is an object or a scalar (the positional array form is not modelled)
FromValueExecutionStep(step_value) ==
    IF step_value.type # "object" THEN Err("invalid type")
    ELSE LET obj == step_value.val
             gas_cost == U64Field(obj, {"gas_cost", "gasCost"})
             op == OptionStringField(obj, {"op", "name"})
             depth == U64Field(obj, {"depth"})
             function == OptionStringField(obj, {"function"})
             start_ink == OptionU64Field(obj, {"startInk"})
             end_ink == OptionU64Field(obj, {"endInk"})
             pc == U64Field(obj, {"pc"})
         IN  IF /\ gas_cost.ok /\ op.ok /\ depth.ok /\ function.ok
                /\ start_ink.ok /\ end_ink.ok /\ pc.ok
             THEN Ok([gas_cost |-> gas_cost.val, op |-> op.val,
                      depth |-> depth.val, function |-> function.val,
                      start_ink |-> start_ink.val, end_ink |-> end_ink.val,
                      pc |-> pc.val])
             ELSE Err("step does not deserialize")

\* the loop of parse_steps_array: the steps pushed, in order
RECURSIVE PushParsedSteps(_)
PushParsedSteps(steps_array) ==
    IF steps_array = <<>> THEN <<>>
    ELSE (IF FromValueExecutionStep(Head(steps_array)).ok
          THEN <<FromValueExecutionStep(Head(steps_array)).val>>
          ELSE <<>>)
         \o PushParsedSteps(Tail(steps_array))

AllStepsFailed == "All execution steps failed to parse"

\* parse_steps_array failing as soon as one step fails to parse
ParseStepsArrayFailFast(steps_array) ==
    LET steps == PushParsedSteps(steps_array)
    IN  IF Len(steps) < Len(steps_array)
        THEN Err(AllStepsFailed)
        ELSE Ok(steps)

\* parse_steps_array
ParseStepsArray(steps_array) ==
    LET steps == PushParsedSteps(steps_array)
    IN  IF steps = <<>> /\ steps_array # <<>>
        THEN Err(AllStepsFailed)
        ELSE Ok(steps)

\* the position in STEP_FIELD_NAMES, from i on, of the first field that
\* holds an array (0 when there is none)
RECURSIVE FirstStepsField(_, _)
FirstStepsField(trace_obj, i) ==
    IF i > Len(STEP_FIELD_NAMES) THEN 0
    ELSE IF /\ STEP_FIELD_NAMES[i] \in DOMAIN trace_obj
            /\ trace_obj[STEP_FIELD_NAMES[i]].type = "array"
    THEN i
    ELSE FirstStepsField(trace_obj, i + 1)

\* the array extract_execution_steps hands to parse_steps_array, if any
StepsArrayOf(trace_obj) ==
    IF FirstStepsField(trace_obj, 1) = 0 THEN None
    ELSE Some(trace_obj[STEP_FIELD_NAMES[FirstStepsField(trace_obj, 1)]].val)

\* extract_execution_steps
ExtractExecutionSteps(trace_obj) ==
    IF StepsArrayOf(trace_obj) = None THEN Ok(<<>>)
    ELSE ParseStepsArray(StepsArrayOf(trace_obj)[1])

\* process_execution_steps with the markers honoured in Stylus traces only
ProcessedCostMarkersInStylusOnly(step, format) ==
    IF format = "StandardEvm"
    THEN SaturatingMul(step.gas_cost, GAS_TO_INK_MULTIPLIER)
    ELSE IF step.start_ink # None /\ step.end_ink # None
    THEN SaturatingSub(step.start_ink[1], step.end_ink[1])
    ELSE step.gas_cost

\* process_execution_steps: the cost of one step
ProcessedCost(step, format) ==
    IF step.start_ink # None /\ step.end_ink # None
    THEN SaturatingSub(step.start_ink[1], step.end_ink[1])
    ELSE IF format = "StandardEvm"
    THEN SaturatingMul(step.gas_cost, GAS_TO_INK_MULTIPLIER)
    ELSE step.gas_cost

\* process_execution_steps
ProcessExecutionSteps(steps, format) ==
    [i \in DOMAIN steps |->
        [steps[i] EXCEPT !.gas_cost = ProcessedCost(steps[i], format)]]

\* execution_steps.iter().map(|s| s.gas_cost): the costs, for the sum
StepCosts(steps) == [i \in DOMAIN steps |-> steps[i].gas_cost]

\* parse_trace(tx_hash, raw_trace); hostio_stats is not modelled
ParseTrace ==
    /\ parse.phase = "call"
    /\ LET detected == DetectTraceFormat(parse.raw_trace)
       IN  IF ~detected.ok
           THEN parse' = [parse EXCEPT !.phase = "err", !.error = detected.val]
           ELSE
             LET trace_obj == detected.val.trace_obj
                 format == detected.val.format
                 extracted == ExtractTotalGas(trace_obj).val
                 normalized ==
                   NormalizeToInk(extracted, format = "StylusTracer")
                 parsed == ExtractExecutionSteps(trace_obj)
                 execution_steps == ProcessExecutionSteps(parsed.val, format)
                 sum == SeqSum(StepCosts(execution_steps))
             IN  IF ~parsed.ok
                 THEN parse' = [parse EXCEPT
                                  !.phase = "err",
                                  !.format = format,
                                  !.steps_array = StepsArrayOf(trace_obj),
                                  !.error = parsed.val]
                 ELSE IF normalized = 0 /\ sum > U64Max /\ overflow_checks
                 THEN parse' = [parse EXCEPT
                                  !.phase = Panic,
                                  !.format = format,
                                  !.steps_array = StepsArrayOf(trace_obj),
                                  !.parsed_steps = parsed.val,
                                  !.execution_steps = execution_steps]
                 ELSE parse' = [parse EXCEPT
                                  !.phase = "ok",
                                  !.format = format,
                                  !.steps_array = StepsArrayOf(trace_obj),
                                  !.parsed_steps = parsed.val,
                                  !.execution_steps = execution_steps,
                                  !.total_gas_used =
                                      IF normalized = 0 THEN WrapU64(sum)
                                      ELSE normalized]
    /\ UNCHANGED <<overflow_checks, builder, metrics, delta, hostio, hotpaths,
                   diff, thresholds, distribution, command, profile_io,
                   flame, analysis>>

\* the inputs: raw traces
StepValues ==
    { JsonObject([k \in {"op", "gasCost", "depth"} |->
         CASE k = "op" -> JsonString(<<"A">>)
           [] k = "gasCost" -> JsonNumber(3)
           [] OTHER -> JsonNumber(1)]),
      JsonObject([k \in {"name", "startInk", "endInk"} |->
         CASE k = "name" -> JsonString(<<"B">>)
           [] k = "startInk" -> JsonNumber(U64Max)
           [] OTHER -> JsonNumber(0)]),
      JsonObject([k \in {"gasCost"} |-> JsonString(<<"0", "x", "3">>)]),
      JsonObject([k \in {"gas_cost", "gasCost"} |-> JsonNumber(1)]),
      JsonString(<<"junk">>),
      JsonObject([k \in {"gasCost", "startInk", "endInk"} |->
         CASE k = "gasCost" -> JsonNumber(300)
           [] k = "startInk" -> JsonNumber(2)
           [] OTHER -> JsonNumber(5)]),
      JsonObject([k \in {"gasCost", "startInk"} |->
         IF k = "gasCost" THEN JsonNumber(300) ELSE JsonNumber(5)]) }
StepArraysUpTo(n) == UNION {[1..m -> StepValues] : m \in 0..n}
StepArrays == StepArraysUpTo(MaxSteps)
GasFields ==
    { EmptyMap,
      [k \in {"gasUsed"} |-> JsonNumber(50)],
      [k \in {"gasUsed"} |-> JsonNumber(0)],
      [k \in {"gasUsed"} |-> JsonString(<<"0", "x", "c", "3", "5", "0">>)],
      [k \in {"gas", "gasUsed"} |->
          IF k = "gas" THEN JsonString(<<"i", "n", "v">>) ELSE JsonNumber(7)],
      [k \in {"gas", "gasUsed"} |->
          IF k = "gas" THEN JsonNumber(5) ELSE JsonNumber(7)],
      [k \in {"gas", "total_gas"} |->
          IF k = "gas" THEN JsonNull
          ELSE JsonString(<<"1", "0", "0", "0">>)],
      [k \in {"gas_used"} |-> JsonNumber(0 - 1)] }
StepsFieldsOf(arrays) ==
    { EmptyMap, [k \in {"structLogs"} |-> JsonNull] }
    \cup { [k \in {"structLogs"} |-> JsonArray(a)] : a \in arrays }
    \cup { [k \in {"result"} |-> JsonArray(a)] : a \in arrays }
    \cup { [k \in {"structLogs", "steps"} |->
              IF k = "steps" THEN JsonArray(a) ELSE JsonNull]
              : a \in arrays }
StepsFields == StepsFieldsOf(StepArrays)
\* every total-cost field with the shorter step arrays, every step array
\* without a total-cost field, and the bare arrays
RawTraces ==
    { JsonObject(g @@ st) : g \in GasFields,
                            st \in StepsFieldsOf(StepArraysUpTo(MaxSteps - 1)) }
    \cup { JsonObject(st) : st \in StepsFields }
    \cup { JsonArray(a) : a \in StepArrays }
    \cup { JsonString(<<"junk">>) }

InitParse ==
    /\ overflow_checks \in BOOLEAN
    /\ \E raw_trace \in RawTraces :
         parse = [phase |-> "call", raw_trace |-> raw_trace, format |-> NoValue,
                  steps_array |-> None, parsed_steps |-> <<>>,
                  execution_steps |-> <<>>, total_gas_used |-> 0,
                  error |-> NoValue]
    /\ builder = Unused
    /\ metrics = Unused
    /\ delta = Unused
    /\ hostio = Unused
    /\ hotpaths = Unused
    /\ diff = Unused
    /\ thresholds = Unused
    /\ distribution = Unused
    /\ command = Unused
    /\ profile_io = Unused
    /\ flame = Unused
    /\ analysis = Unused

NextParse == ParseTrace

SpecParse == InitParse /\ [][NextParse]_vars

(***************************************************************************)
(* Properties of parse_trace                                               *)
(***************************************************************************)
\* parse_trace has returned (or panicked) after reaching the steps
StepsReached ==
    parse.phase # "call" /\ parse.raw_trace.type \in {"object", "array"}

\* the steps array that was parsed (empty when the trace has none)
ParsedArray ==
    IF parse.steps_array = None THEN <<>> ELSE parse.steps_array[1]

\* the positions of the array whose step deserializes
GoodPositions ==
    {j \in DOMAIN ParsedArray : FromValueExecutionStep(ParsedArray[j]).ok}

\* C19: the steps kept are exactly the steps of the array that parse, in
\* their original order; the operation fails, with the invalid-format error
\* "All execution steps failed to parse", iff the array is non-empty and no
\* step of it parses; an empty or absent array gives an empty list and no
\* error.
C19_PartialTolerance ==
    StepsReached =>
        /\ parse.phase = "err" <=> (ParsedArray # <<>> /\ GoodPositions = {})
        /\ parse.phase = "err" => parse.error = AllStepsFailed
        /\ parse.phase # "err" =>
              /\ Len(parse.parsed_steps) = Cardinality(GoodPositions)
              /\ \E f \in [DOMAIN parse.parsed_steps -> GoodPositions] :
                    /\ \A i, j \in DOMAIN f : i < j => f[i] < f[j]
                    /\ \A i \in DOMAIN f :
                          parse.parsed_steps[i] =
                             FromValueExecutionStep(ParsedArray[f[i]]).val
        /\ ParsedArray = <<>> =>
              parse.phase # "err" /\ parse.parsed_steps = <<>>

C19_Witness ==
    /\ parse.phase = "ok"
    /\ Len(ParsedArray) = 3
    /\ GoodPositions = {1, 3}
    /\ Len(parse.parsed_steps) = 2
    /\ parse.parsed_steps[1].op # parse.parsed_steps[2].op

\* the positions of GAS_FIELD_NAMES whose field is present and parses
ParsingCandidates(trace_obj) ==
    {i \in DOMAIN GAS_FIELD_NAMES :
        /\ GAS_FIELD_NAMES[i] \in DOMAIN trace_obj
        /\ ParseJsonU64(trace_obj[GAS_FIELD_NAMES[i]]).ok}

\* C20 (as stated): once the steps have parsed, parse_trace returns a
\* result; its total cost is the (unit-normalized) value of the first
\* candidate field, in the fixed order, that parses, and, when no candidate
\* parses, the sum of all normalized step costs (0 without steps).
C20_TotalCostNeverFails ==
    (StepsReached /\ parse.phase # "err") =>
        /\ parse.phase = "ok"
        /\ LET trace_obj == IF parse.raw_trace.type = "object"
                            THEN parse.raw_trace.val ELSE EmptyMap
               candidates == ParsingCandidates(trace_obj)
               first == CHOOSE i \in candidates :
                           \A j \in candidates : i <= j
           IN  IF candidates # {}
               THEN parse.total_gas_used =
                      NormalizeToInk(
                         ParseJsonU64(trace_obj[GAS_FIELD_NAMES[first]]).val,
                         parse.format = "StylusTracer")
               ELSE parse.total_gas_used =
                      SeqSum(StepCosts(parse.execution_steps))

\* parse_trace has processed its steps
StepsProcessed == parse.phase \in {"ok", Panic}

\* the step has both cost markers
HasBothMarkers(step) == step.start_ink # None /\ step.end_ink # None

\* C21: a step with both a start and an end marker costs max(start - end, 0)
\* whatever its own cost field and whatever the trace shape; any other step
\* of a native-unit trace (shape (a)) costs its cost field times 10000,
\* capped at the largest 64-bit value (3 becomes 30000); any other step of
\* a canonical-unit trace (shape (b)) keeps its cost field.
C21_StepCostNormalization ==
    StepsProcessed =>
        /\ Len(parse.execution_steps) = Len(parse.parsed_steps)
        /\ \A i \in DOMAIN parse.parsed_steps :
              LET raw == parse.parsed_steps[i]
                  cost == parse.execution_steps[i].gas_cost
              IN  IF HasBothMarkers(raw)
                  THEN cost = (IF raw.start_ink[1] - raw.end_ink[1] > 0
                               THEN raw.start_ink[1] - raw.end_ink[1] ELSE 0)
                  ELSE IF parse.format = "StandardEvm"
                  THEN /\ cost = (IF raw.gas_cost * 10000 > U64Max
                                  THEN U64Max ELSE raw.gas_cost * 10000)
                       /\ raw.gas_cost = 3 => cost = 30000
                  ELSE cost = raw.gas_cost

\* a native-unit trace with a marked step whose end exceeds its start and
\* whose cost field is set, a step of cost 3 and a step that saturates
C21_Witness ==
    /\ parse.phase = "ok"
    /\ parse.format = "StandardEvm"
    /\ Len(parse.parsed_steps) = 3
    /\ HasBothMarkers(parse.parsed_steps[1])
    /\ parse.parsed_steps[1].gas_cost = 300
    /\ parse.parsed_steps[1].start_ink[1] < parse.parsed_steps[1].end_ink[1]
    /\ parse.execution_steps[1].gas_cost = 0
    /\ parse.parsed_steps[2].gas_cost = 3
    /\ parse.execution_steps[2].gas_cost = 30000
    /\ ~HasBothMarkers(parse.parsed_steps[3])
    /\ parse.parsed_steps[3].gas_cost = 300
    /\ parse.execution_steps[3].gas_cost = U64Max

\* a canonical-unit trace whose steps keep their cost field unless marked
C21_WitnessStylus ==
    /\ parse.phase = "ok"
    /\ parse.format = "StylusTracer"
    /\ Len(parse.parsed_steps) = 2
    /\ HasBothMarkers(parse.parsed_steps[1])
    /\ parse.execution_steps[1].gas_cost = 0
    /\ ~HasBothMarkers(parse.parsed_steps[2])
    /\ parse.execution_steps[2].gas_cost = 300

(***************************************************************************)
(* commands/capture.rs and commands/diff.rs                                *)
(*                                                                         *)
(* execute_capture and execute_diff, one action per call that can return   *)
(* early through `?`.  `command` holds the position in the function, the   *)
(* arguments, the set of output files created so far, the step whose       *)
(* error ended the run and the returned Result.  The collaborators (RPC    *)
(* node, file system, TOML and SVG libraries) answer nondeterministically. *)
(* parse_trace and generate_diff are the actions ParseTrace and            *)
(* GenerateDiff; the aggregation between parse_trace and                   *)
(* generate_flamegraph creates no file and returns no error.               *)
(***************************************************************************)
\* `?` on an Err at the given step: return the error with its context
Fail(step, context) ==
    [command EXCEPT !.pc = "done", !.failed_at = Some(step),
                    !.result = Some(Err(context))]

\* a panic unwinds out of the command
Unwind(step) ==
    [command EXCEPT !.pc = Panic, !.failed_at = Some(step)]

\* fetch_trace(..).context("Failed to fetch trace from RPC")?
FetchTrace ==
    /\ command.name = "capture"
    /\ command.pc = "fetch_trace"
    /\ LET fetched == command.rpc
       IN
         IF fetched = None
         THEN /\ command' = Fail("fetch_trace",
                                 "Failed to fetch trace from RPC")
              /\ UNCHANGED parse
         ELSE /\ command' = [command EXCEPT !.pc = "parse_trace"]
              /\ parse' = [phase |-> "call", raw_trace |-> fetched[1],
                           format |-> NoValue, steps_array |-> None,
                           parsed_steps |-> <<>>, execution_steps |-> <<>>,
                           total_gas_used |-> 0, error |-> NoValue]
    /\ UNCHANGED <<overflow_checks, builder, metrics, delta, hostio, hotpaths,
                   diff, thresholds, distribution, profile_io, flame,
                   analysis>>

\* the result of parse_trace is written however it ended
ParseTraceReturnedAlwaysOk ==
    /\ command.name = "capture"
    /\ command.pc = "parse_trace"
    /\ parse.phase # "call"
    /\ command' = [command EXCEPT !.pc = "generate_flamegraph"]
    /\ UNCHANGED <<overflow_checks, builder, metrics, delta, hostio, hotpaths,
                   diff, thresholds, distribution, parse, profile_io, flame,
                   analysis>>

\* parse_trace(..).context("Failed to parse trace data")?
ParseTraceReturned ==
    /\ command.name = "capture"
    /\ command.pc = "parse_trace"
    /\ parse.phase # "call"
    /\ command' = IF parse.phase = "err"
                  THEN Fail("parse_trace", "Failed to parse trace data")
                  ELSE IF parse.phase = Panic THEN Unwind("parse_trace")
                  ELSE [command EXCEPT !.pc = "generate_flamegraph"]
    /\ UNCHANGED <<overflow_checks, builder, metrics, delta, hostio, hotpaths,
                   diff, thresholds, distribution, parse, profile_io, flame,
                   analysis>>

\* svg_content: generate_flamegraph(..).context(..)? when output_svg is set
GenerateFlamegraph ==
    /\ command.name = "capture"
    /\ command.pc = "generate_flamegraph"
    /\ IF command.args.output_svg = None
       THEN command' = [command EXCEPT !.pc = "write_profile"]
       ELSE \E generated \in {Ok("svg"), Err("flamegraph")} :
              command' = IF generated.ok
                         THEN [command EXCEPT !.pc = "write_profile",
                                              !.svg_content = Some("svg")]
                         ELSE Fail("generate_flamegraph",
                                   "Failed to generate flamegraph")
    /\ UNCHANGED <<overflow_checks, builder, metrics, delta, hostio, hotpaths,
                   diff, thresholds, distribution, parse, profile_io, flame,
                   analysis>>

\* the ways write_profile / write_svg can end: the path is rejected or the
\* file cannot be created (no file), the content cannot be written (the
\* file exists), or all is written
WriteOutcomes == {"invalid_path", "create_failed", "write_failed", "ok"}

\* the files that exist after a write of `path` ending in `outcome`
FilesAfterWrite(files, path, outcome) ==
    IF outcome \in {"write_failed", "ok"} THEN files \cup {path} ELSE files

\* write_outputs: write_profile(..).context("Failed to write profile JSON")?
WriteProfile ==
    /\ command.name = "capture"
    /\ command.pc = "write_profile"
    /\ \E outcome \in WriteOutcomes :
         LET files == FilesAfterWrite(command.files,
                                      command.args.output_json, outcome)
         IN  command' =
               IF outcome = "ok"
               THEN [command EXCEPT !.pc = "write_svg", !.files = files]
               ELSE [Fail("write_profile", "Failed to write profile JSON")
                        EXCEPT !.files = files]
    /\ UNCHANGED <<overflow_checks, builder, metrics, delta, hostio, hotpaths,
                   diff, thresholds, distribution, parse, profile_io, flame,
                   analysis>>

\* write_outputs: write_svg(..).context("Failed to write flamegraph SVG")?,
\* then the summary and Ok(())
WriteSvg ==
    /\ command.name = "capture"
    /\ command.pc = "write_svg"
    /\ IF command.svg_content = None \/ command.args.output_svg = None
       THEN command' = [command EXCEPT !.pc = "done", !.result = Some(Ok("()"))]
       ELSE \E outcome \in WriteOutcomes :
              LET files == FilesAfterWrite(command.files,
                                           command.args.output_svg[1], outcome)
              IN  command' =
                    IF outcome = "ok"
                    THEN [command EXCEPT !.pc = "done", !.files = files,
                                         !.result = Some(Ok("()"))]
                    ELSE [Fail("write_svg", "Failed to write flamegraph SVG")
                             EXCEPT !.files = files]
    /\ UNCHANGED <<overflow_checks, builder, metrics, delta, hostio, hotpaths,
                   diff, thresholds, distribution, parse, profile_io, flame,
                   analysis>>

\* read_profile(&args.baseline).context("Failed to read baseline profile")?
ReadBaseline ==
    /\ command.name = "diff"
    /\ command.pc = "read_baseline"
    /\ command' = IF command.baseline_file = None
                  THEN Fail("read_baseline", "Failed to read baseline profile")
                  ELSE [command EXCEPT !.pc = "read_target"]
    /\ UNCHANGED <<overflow_checks, builder, metrics, delta, hostio, hotpaths,
                   diff, thresholds, distribution, parse, profile_io, flame,
                   analysis>>

\* read_profile(&args.target).context("Failed to read target profile")?,
\* then the call of generate_diff
ReadTarget ==
    /\ command.name = "diff"
    /\ command.pc = "read_target"
    /\ IF command.target_file = None
       THEN /\ command' = Fail("read_target", "Failed to read target profile")
            /\ UNCHANGED diff
       ELSE /\ command' = [command EXCEPT !.pc = "generate_diff"]
            /\ diff' = [phase |-> "call",
                        baseline |-> command.baseline_file[1],
                        target |-> command.target_file[1],
                        error |-> None, report |-> None]
    /\ UNCHANGED <<overflow_checks, builder, metrics, delta, hostio, hotpaths,
                   thresholds, distribution, parse, profile_io, flame,
                   analysis>>

\* generate_diff(..).context("Failed to generate diff")?
GenerateDiffReturned ==
    /\ command.name = "diff"
    /\ command.pc = "generate_diff"
    /\ diff.phase # "call"
    /\ command' = IF diff.phase = "err"
                  THEN Fail("generate_diff", "Failed to generate diff")
                  ELSE IF diff.phase = Panic THEN Unwind("generate_diff")
                  ELSE [command EXCEPT !.pc = "load_thresholds"]
    /\ UNCHANGED <<overflow_checks, builder, metrics, delta, hostio, hotpaths,
                   diff, thresholds, distribution, parse, profile_io, flame,
                   analysis>>

\* GasThresholds::default(), HostIOThresholds::default()
GasThresholdsDefault ==
    [max_increase_percent |-> None, max_increase_absolute |-> None]
HostIOThresholdsDefault ==
    [max_total_calls_increase_percent |-> None, limits |-> None]

\* ThresholdConfig::default()
ThresholdConfigDefault ==
    [gas |-> GasThresholdsDefault, hostio |-> HostIOThresholdsDefault,
     hot_paths |-> None]

\* "Override with simple percent if provided (Simple Mode)"
SimpleOverride(config, args) ==
    IF args.threshold_percent = None THEN config
    ELSE [gas |-> [max_increase_percent |-> args.threshold_percent,
                   max_increase_absolute |-> None],
          hostio |-> [max_total_calls_increase_percent |->
                          args.threshold_percent,
                      limits |-> None],
          hot_paths |-> Some([warn_individual_increase_percent |->
                                 args.threshold_percent])]

\* "Handle granular overrides": the gas flag
GasOverride(config, args) ==
    IF args.gas_threshold = None THEN config
    ELSE LET focused == [config EXCEPT
                           !.gas = [max_increase_percent |-> args.gas_threshold,
                                    max_increase_absolute |-> None]]
         IN  IF args.threshold_percent = None /\ args.hostio_threshold = None
             THEN [focused EXCEPT !.hostio = HostIOThresholdsDefault,
                                  !.hot_paths = None]
             ELSE focused

\* "Handle granular overrides": the hostio flag
HostioOverride(config, args) ==
    IF args.hostio_threshold = None THEN config
    ELSE LET focused == [config EXCEPT
                           !.hostio = [max_total_calls_increase_percent |->
                                           args.hostio_threshold,
                                       limits |-> None]]
         IN  IF args.threshold_percent = None /\ args.gas_threshold = None
             THEN [focused EXCEPT !.gas = GasThresholdsDefault,
                                  !.hot_paths = None]
             ELSE focused

\* Step 3: load_thresholds(..).context(..)? from the given file, from
\* thresholds.toml when it exists, else the default; then the overrides
LoadThresholds ==
    /\ command.name = "diff"
    /\ command.pc = "load_thresholds"
    /\ LET loaded ==
             IF command.args.threshold_file # None
             THEN command.threshold_file
             ELSE IF command.auto_path_exists THEN command.threshold_file
             ELSE Some(ThresholdConfigDefault)
       IN  command' =
             IF loaded = None
             THEN Fail("load_thresholds",
                       IF command.args.threshold_file # None
                       THEN "Failed to load threshold file"
                       ELSE "Failed to auto-load thresholds.toml from project root")
             ELSE [command EXCEPT
                     !.pc = "check_thresholds",
                     !.thresholds =
                         Some(HostioOverride(
                                GasOverride(
                                  SimpleOverride(loaded[1], command.args),
                                  command.args),
                                command.args))]
    /\ UNCHANGED <<overflow_checks, builder, metrics, delta, hostio, hotpaths,
                   diff, thresholds, distribution, parse, profile_io, flame,
                   analysis>>

\* Step 4: check_thresholds(&mut report, &thresholds)
CheckReport ==
    /\ command.name = "diff"
    /\ command.pc = "check_thresholds"
    /\ LET config == command.thresholds[1]
       IN  \E order \in IterationOrders(LimitKeys(config.hostio)) :
             diff' = [diff EXCEPT
                        !.report = Some(UpdateDiffReport(
                                          diff.report[1],
                                          CollectViolations(diff.report[1],
                                                            config, order)))]
    /\ command' = [command EXCEPT !.pc = "write_report"]
    /\ UNCHANGED <<overflow_checks, builder, metrics, delta, hostio, hotpaths,
                   thresholds, distribution, parse, profile_io, flame,
                   analysis>>

\* Step 5: the report, when args.output is set
WriteReport ==
    /\ command.name = "diff"
    /\ command.pc = "write_report"
    /\ IF command.args.output = None
       THEN command' = [command EXCEPT !.pc = "write_diff_svg"]
       ELSE \E outcome \in WriteOutcomes \ {"invalid_path"} :
              LET files == FilesAfterWrite(command.files,
                                           command.args.output[1], outcome)
              IN  command' =
                    IF outcome = "ok"
                    THEN [command EXCEPT !.pc = "write_diff_svg",
                                         !.files = files]
                    ELSE [Fail("write_report",
                               "Failed to write diff report JSON")
                             EXCEPT !.files = files]
    /\ UNCHANGED <<overflow_checks, builder, metrics, delta, hostio, hotpaths,
                   diff, thresholds, distribution, parse, profile_io, flame,
                   analysis>>

\* the visual diff, when args.output_svg is set
WriteDiffSvg ==
    /\ command.name = "diff"
    /\ command.pc = "write_diff_svg"
    /\ IF command.args.output_svg = None
       THEN command' = [command EXCEPT !.pc = "final_status"]
       ELSE IF diff.baseline.all_stacks = None
       THEN command' = Fail("write_diff_svg",
                            "Baseline profile missing full execution stacks. Please re-capture.")
       ELSE IF diff.target.all_stacks = None
       THEN command' = Fail("write_diff_svg",
                            "Target profile missing full execution stacks. Please re-capture.")
       ELSE \E generated \in BOOLEAN, outcome \in WriteOutcomes :
              LET files == FilesAfterWrite(command.files,
                                           command.args.output_svg[1], outcome)
              IN  command' =
                    IF ~generated
                    THEN Fail("write_diff_svg",
                              "Failed to generate diff flamegraph")
                    ELSE IF outcome = "ok"
                    THEN [command EXCEPT !.pc = "final_status",
                                         !.files = files]
                    ELSE [Fail("write_diff_svg",
                               "Failed to write diff flamegraph SVG")
                             EXCEPT !.files = files]
    /\ UNCHANGED <<overflow_checks, builder, metrics, delta, hostio, hotpaths,
                   diff, thresholds, distribution, parse, profile_io, flame,
                   analysis>>

\* Steps 6 and 7: the terminal summary and the final status
FinalStatus ==
    /\ command.name = "diff"
    /\ command.pc = "final_status"
    /\ command' = IF diff.report[1].summary.status = "FAILED"
                  THEN Fail("final_status",
                            "Regression detected against thresholds")
                  ELSE [command EXCEPT !.pc = "done",
                                       !.result = Some(Ok("()"))]
    /\ UNCHANGED <<overflow_checks, builder, metrics, delta, hostio, hotpaths,
                   diff, thresholds, distribution, parse, profile_io, flame,
                   analysis>>

\* the inputs: what the node returns
CaptureTraces ==
    {t \in RawTraces : t.type = "string" \/ (t.type = "array" /\ Len(t.val) <= 2)}
\* None: the request fails
RpcAnswers == {None} \cup {Some(t) : t \in CaptureTraces}
CaptureArgs ==
    {[transaction_hash |-> "0xaaa", output_json |-> "profile.json",
      output_svg |-> svg, print_summary |-> TRUE]
        : svg \in {None, Some("flamegraph.svg")}}

\* the inputs: the profile and threshold files and the arguments
CommandStacks == <<CollapsedStack(<<"main", "execute">>, 100, None)>>
CommandProfiles ==
    LET recorded == {p \in ThresholdProfiles : p.total_gas < U64Max
                                               /\ p.hostio_summary.total_calls # 12}
    IN  recorded
        \cup {[p EXCEPT !.all_stacks = Some(CommandStacks)] : p \in recorded}
        \cup {[p EXCEPT !.version = "2.0.0"] : p \in recorded}
\* None: the file cannot be read as a profile
ProfileFiles == {None} \cup {Some(p) : p \in CommandProfiles}
CommandConfigs ==
    {c \in ThresholdConfigs :
        /\ c.gas.max_increase_percent # None
        /\ c.gas.max_increase_absolute = None
        /\ c.hostio.limits # None
        /\ DOMAIN c.hostio.limits[1] = {"storage_load"}
        /\ c.hot_paths = None}
\* None: the file cannot be read as a threshold configuration
ThresholdFiles == {None} \cup {Some(c) : c \in CommandConfigs}
PercentFlags == {None, Some(F64(10, 1))}
DiffArgs ==
    {[threshold_file |-> tf, threshold_percent |-> tp, gas_threshold |-> gt,
      hostio_threshold |-> ht, summary |-> TRUE, output |-> out,
      output_svg |-> svg]
        : tf \in {None, Some("thresholds.toml")}, tp \in PercentFlags,
          gt \in PercentFlags, ht \in PercentFlags,
          out \in {None, Some("diff.json")}, svg \in {None, Some("diff.svg")}}

InitCommand ==
    /\ overflow_checks \in BOOLEAN
    /\ \/ \E args \in CaptureArgs, rpc \in RpcAnswers :
            command = [name |-> "capture", pc |-> "fetch_trace", args |-> args,
                       rpc |-> rpc, files |-> {}, svg_content |-> None,
                       failed_at |-> None, result |-> None]
       \/ \E args \in DiffArgs, b \in ProfileFiles, t \in ProfileFiles,
             tf \in ThresholdFiles, auto \in BOOLEAN :
            command = [name |-> "diff", pc |-> "read_baseline", args |-> args,
                       baseline_file |-> b, target_file |-> t,
                       threshold_file |-> tf, auto_path_exists |-> auto,
                       thresholds |-> None, files |-> {},
                       failed_at |-> None, result |-> None]
    /\ builder = Unused
    /\ metrics = Unused
    /\ delta = Unused
    /\ hostio = Unused
    /\ hotpaths = Unused
    /\ diff = Unused
    /\ thresholds = Unused
    /\ distribution = Unused
    /\ parse = Unused
    /\ profile_io = Unused
    /\ flame = Unused
    /\ analysis = Unused

NextCommand ==
    \/ FetchTrace
    \/ ParseTrace
    \/ ParseTraceReturned
    \/ GenerateFlamegraph
    \/ WriteProfile
    \/ WriteSvg
    \/ ReadBaseline
    \/ ReadTarget
    \/ GenerateDiff
    \/ GenerateDiffReturned
    \/ LoadThresholds
    \/ CheckReport
    \/ WriteReport
    \/ WriteDiffSvg
    \/ FinalStatus

SpecCommand == InitCommand /\ [][NextCommand]_vars

(***************************************************************************)
(* Properties of execute_capture and execute_diff                          *)
(***************************************************************************)
\* the command has returned an error
ReturnedError ==
    command.pc = "done" /\ command.result # None /\ ~command.result[1].ok

\* the steps of execute_diff named by C22 that have failed
DiffFailed ==
    \/ command.failed_at \in {Some("read_baseline"), Some("read_target"),
                              Some("load_thresholds")}
    \/ (command.pc # "read_baseline" /\ command.baseline_file = None)
    \/ (command.pc \notin {"read_baseline", "read_target"}
           /\ command.target_file = None)
    \/ (diff.phase = "err")

\* C22: in execute_capture, once parse_trace has failed the run can only
\* return an error and neither the profile file nor the flamegraph file
\* exists at any later time; in execute_diff, once reading a profile,
\* loading the thresholds or the version compatibility check has failed,
\* the run can only return an error and neither the report file nor the
\* diff flamegraph exists at any later time.
C22_AllOrNothing ==
    /\ (command.name = "capture" /\ parse.phase = "err") =>
          /\ command.files = {}
          /\ command.pc \in {"parse_trace", "done"}
          /\ command.pc = "done" =>
                ReturnedError /\ command.failed_at = Some("parse_trace")
    /\ (command.name = "diff" /\ DiffFailed) =>
          /\ command.files = {}
          /\ command.pc \in {"generate_diff", "done"}
          /\ command.pc = "done" => ReturnedError

\* execute_capture has returned the parse error of a trace nothing of
\* which parses, with a flamegraph requested
C22_Witness ==
    /\ command.name = "capture"
    /\ command.args.output_svg # None
    /\ parse.phase = "err"
    /\ parse.error = AllStepsFailed
    /\ ReturnedError
    /\ command.result[1].val = "Failed to parse trace data"

\* execute_diff has returned the error of the version check, with a report
\* and a diff flamegraph requested
C22_WitnessDiff ==
    /\ command.name = "diff"
    /\ command.args.output # None
    /\ command.args.output_svg # None
    /\ diff.phase = "err"
    /\ ReturnedError
    /\ command.result[1].val = "Failed to generate diff"

\* execute_diff has returned the error of the threshold file
C22_WitnessThresholds ==
    /\ command.name = "diff"
    /\ command.args.output # None
    /\ command.failed_at = Some("load_thresholds")
    /\ ReturnedError

(***************************************************************************)
(* output/json.rs: write_profile and read_profile, with the serde          *)
(* attributes of parser/schema.rs and of CollapsedStack                    *)
(*                                                                         *)
(* The file holds a JSON value.  A struct is written as an object with one *)
(* member per field, except that a field marked skip_serializing_if =      *)
(* "Option::is_none" has no member when it is None; any other None is      *)
(* written as null.  On reading, a member that is missing or null gives    *)
(* None for an Option field and an error for any other field.  An f64 is   *)
(* the JSON number of type "float" (the decimal text of a finite f64 is    *)
(* taken to read back as the same f64).                                    *)
(***************************************************************************)
JsonFloat(x) == [type |-> "float", val |-> x]

\* Serialize for Option<u64> / Option<u32> and Option<String>
ToJsonOptionU64(opt) == IF opt = None THEN JsonNull ELSE JsonNumber(opt[1])
ToJsonOptionString(opt) == IF opt = None THEN JsonNull ELSE JsonString(opt[1])

\* the member of a field marked skip_serializing_if = "Option::is_none"
SkipIfNone(key, opt, value) ==
    IF opt = None THEN EmptyMap ELSE [k \in {key} |-> value]

\* #[derive(Serialize)] for SourceHint
ToJsonSourceHint(hint) ==
    JsonObject([k \in {"file", "line", "column", "function"} |->
        CASE k = "file" -> JsonString(hint.file)
          [] k = "line" -> ToJsonOptionU64(hint.line)
          [] k = "column" -> ToJsonOptionU64(hint.column)
          [] OTHER -> ToJsonOptionString(hint.function)])

\* #[derive(Serialize)] for HotPath
ToJsonHotPath(hot_path) ==
    JsonObject(
        [k \in {"stack", "gas", "percentage"} |->
            CASE k = "stack" -> JsonString(hot_path.stack)
              [] k = "gas" -> JsonNumber(hot_path.gas)
              [] OTHER -> JsonFloat(hot_path.percentage)]
        @@ SkipIfNone("source_hint", hot_path.source_hint,
                      IF hot_path.source_hint = None THEN JsonNull
                      ELSE ToJsonSourceHint(hot_path.source_hint[1])))

\* #[derive(Serialize)] for CollapsedStack
ToJsonCollapsedStack(stack) ==
    JsonObject([k \in {"stack", "weight", "last_pc"} |->
        CASE k = "stack" -> JsonString(stack.stack)
          [] k = "weight" -> JsonNumber(stack.weight)
          [] OTHER -> ToJsonOptionU64(stack.last_pc)])

\* #[derive(Serialize)] for HostIoSummary
ToJsonHostIoSummary(summary) ==
    JsonObject([k \in {"total_calls", "by_type", "total_hostio_gas"} |->
        CASE k = "total_calls" -> JsonNumber(summary.total_calls)
          [] k = "by_type" ->
               JsonObject([ty \in DOMAIN summary.by_type |->
                              JsonNumber(summary.by_type[ty])])
          [] OTHER -> JsonNumber(summary.total_hostio_gas)])

\* #[derive(Serialize)] for Profile
ToJsonProfile(profile) ==
    JsonObject(
        [k \in {"version", "transaction_hash", "total_gas", "hostio_summary",
                "hot_paths", "generated_at"} |->
            CASE k = "version" -> JsonString(profile.version)
              [] k = "transaction_hash" -> JsonString(profile.transaction_hash)
              [] k = "total_gas" -> JsonNumber(profile.total_gas)
              [] k = "hostio_summary" ->
                   ToJsonHostIoSummary(profile.hostio_summary)
              [] k = "hot_paths" ->
                   JsonArray([i \in DOMAIN profile.hot_paths |->
                                 ToJsonHotPath(profile.hot_paths[i])])
              [] OTHER -> JsonString(profile.generated_at)]
        @@ SkipIfNone("all_stacks", profile.all_stacks,
                      IF profile.all_stacks = None THEN JsonNull
                      ELSE JsonArray([i \in DOMAIN profile.all_stacks[1] |->
                               ToJsonCollapsedStack(profile.all_stacks[1][i])])))

\* an Option field for which a missing member is an error
OptionMemberRequired(obj, key) ==
    IF key \notin DOMAIN obj THEN Some(JsonString("missing"))
    ELSE IF obj[key].type = "null" THEN None
    ELSE Some(obj[key])

\* the member read for an Option field: None when missing or null
OptionMember(obj, key) ==
    IF key \notin DOMAIN obj THEN None
    ELSE IF obj[key].type = "null" THEN None
    ELSE Some(obj[key])

\* Deserialize for a u64 / String / f64 field (no default)
ReadU64(obj, key) ==
    IF key \notin DOMAIN obj THEN Err("missing field")
    ELSE IF AsU64Value(obj[key]) = None THEN Err("invalid type")
    ELSE Ok(AsU64Value(obj[key])[1])
ReadString(obj, key) ==
    IF key \notin DOMAIN obj THEN Err("missing field")
    ELSE IF obj[key].type # "string" THEN Err("invalid type")
    ELSE Ok(obj[key].val)
ReadF64(obj, key) ==
    IF key \notin DOMAIN obj THEN Err("missing field")
    ELSE IF obj[key].type = "float" THEN Ok(obj[key].val)
    ELSE IF obj[key].type = "number" THEN Ok(F64(obj[key].val, 1))
    ELSE Err("invalid type")

\* Deserialize for Option<u64> / Option<u32> and Option<String>
ReadOptionU64(obj, key) ==
    LET member == OptionMember(obj, key)
    IN  IF member = None THEN Ok(None)
        ELSE IF AsU64Value(member[1]) = None THEN Err("invalid type")
        ELSE Ok(Some(AsU64Value(member[1])[1]))
ReadOptionString(obj, key) ==
    LET member == OptionMember(obj, key)
    IN  IF member = None THEN Ok(None)
        ELSE IF member[1].type # "string" THEN Err("invalid type")
        ELSE Ok(Some(member[1].val))

\* Deserialize for Vec<T>: every element must deserialize
ReadVec(FromValue(_), value) ==
    IF value.type # "array" THEN Err("invalid type")
    ELSE IF \E i \in DOMAIN value.val : ~FromValue(value.val[i]).ok
    THEN Err("invalid element")
    ELSE Ok([i \in DOMAIN value.val |-> FromValue(value.val[i]).val])

\* #[derive(Deserialize)] for SourceHint
FromValueSourceHint(value) ==
    IF value.type # "object" THEN Err("invalid type")
    ELSE LET obj == value.val
             file == ReadString(obj, "file")
             line == ReadOptionU64(obj, "line")
             column == ReadOptionU64(obj, "column")
             function == ReadOptionString(obj, "function")
         IN  IF file.ok /\ line.ok /\ column.ok /\ function.ok
             THEN Ok([file |-> file.val, line |-> line.val,
                      column |-> column.val, function |-> function.val])
             ELSE Err("invalid source hint")

\* #[derive(Deserialize)] for HotPath
FromValueHotPath(value) ==
    IF value.type # "object" THEN Err("invalid type")
    ELSE LET obj == value.val
             stack == ReadString(obj, "stack")
             gas == ReadU64(obj, "gas")
             percentage == ReadF64(obj, "percentage")
             member == OptionMember(obj, "source_hint")
             source_hint == IF member = None THEN Ok(None)
                            ELSE IF FromValueSourceHint(member[1]).ok
                            THEN Ok(Some(FromValueSourceHint(member[1]).val))
                            ELSE Err("invalid source hint")
         IN  IF stack.ok /\ gas.ok /\ percentage.ok /\ source_hint.ok
             THEN Ok([stack |-> stack.val, gas |-> gas.val,
                      percentage |-> percentage.val,
                      source_hint |-> source_hint.val])
             ELSE Err("invalid hot path")

\* #[derive(Deserialize)] for CollapsedStack
FromValueCollapsedStack(value) ==
    IF value.type # "object" THEN Err("invalid type")
    ELSE LET obj == value.val
             stack == ReadString(obj, "stack")
             weight == ReadU64(obj, "weight")
             last_pc == ReadOptionU64(obj, "last_pc")
         IN  IF stack.ok /\ weight.ok /\ last_pc.ok
             THEN Ok(CollapsedStack(stack.val, weight.val, last_pc.val))
             ELSE Err("invalid stack")

\* #[derive(Deserialize)] for HostIoSummary
FromValueHostIoSummary(value) ==
    IF value.type # "object" THEN Err("invalid type")
    ELSE LET obj == value.val
             total_calls == ReadU64(obj, "total_calls")
             total_hostio_gas == ReadU64(obj, "total_hostio_gas")
             by_type_ok ==
               /\ "by_type" \in DOMAIN obj
               /\ obj["by_type"].type = "object"
               /\ \A ty \in DOMAIN obj["by_type"].val :
                     AsU64Value(obj["by_type"].val[ty]) # None
         IN  IF total_calls.ok /\ total_hostio_gas.ok /\ by_type_ok
             THEN Ok([total_calls |-> total_calls.val,
                      by_type |-> [ty \in DOMAIN obj["by_type"].val |->
                                      AsU64Value(obj["by_type"].val[ty])[1]],
                      total_hostio_gas |-> total_hostio_gas.val])
             ELSE Err("invalid hostio summary")

\* #[derive(Deserialize)] for Profile
FromValueProfile(value) ==
    IF value.type # "object" THEN Err("invalid type")
    ELSE LET obj == value.val
             version == ReadString(obj, "version")
             transaction_hash == ReadString(obj, "transaction_hash")
             total_gas == ReadU64(obj, "total_gas")
             hostio_summary ==
               IF "hostio_summary" \in DOMAIN obj
               THEN FromValueHostIoSummary(obj["hostio_summary"])
               ELSE Err("missing field")
             hot_paths ==
               IF "hot_paths" \in DOMAIN obj
               THEN ReadVec(FromValueHotPath, obj["hot_paths"])
               ELSE Err("missing field")
             member == OptionMember(obj, "all_stacks")
             all_stacks ==
               IF member = None THEN Ok(None)
               ELSE IF ReadVec(FromValueCollapsedStack, member[1]).ok
               THEN Ok(Some(ReadVec(FromValueCollapsedStack, member[1]).val))
               ELSE Err("invalid stacks")
             generated_at == ReadString(obj, "generated_at")
         IN  IF /\ version.ok /\ transaction_hash.ok /\ total_gas.ok
                /\ hostio_summary.ok /\ hot_paths.ok /\ all_stacks.ok
                /\ generated_at.ok
             THEN Ok([version |-> version.val,
                      transaction_hash |-> transaction_hash.val,
                      total_gas |-> total_gas.val,
                      hostio_summary |-> hostio_summary.val,
                      hot_paths |-> hot_paths.val,
                      all_stacks |-> all_stacks.val,
                      generated_at |-> generated_at.val])
             ELSE Err("SerializationFailed")

\* write_profile(profile, output_path)
WriteProfileFile ==
    /\ profile_io.phase = "write"
    /\ \E outcome \in WriteOutcomes :
         profile_io' =
           IF outcome = "ok"
           THEN [profile_io EXCEPT !.phase = "read", !.written = Ok("()"),
                                   !.file = Some(ToJsonProfile(profile_io.profile))]
           ELSE [profile_io EXCEPT !.phase = "done", !.written = Err(outcome)]
    /\ UNCHANGED <<overflow_checks, builder, metrics, delta, hostio, hotpaths,
                   diff, thresholds, distribution, parse, command, flame,
                   analysis>>

\* read_profile(input_path) of the file written
ReadProfileFile ==
    /\ profile_io.phase = "read"
    /\ \E opened \in BOOLEAN :
         profile_io' =
           [profile_io EXCEPT
              !.phase = "done",
              !.opened = opened,
              !.loaded = IF opened THEN FromValueProfile(profile_io.file[1])
                         ELSE Err("WriteFailed")]
    /\ UNCHANGED <<overflow_checks, builder, metrics, delta, hostio, hotpaths,
                   diff, thresholds, distribution, parse, command, flame,
                   analysis>>

\* the inputs: profiles
RoundTripHints ==
    { None,
      Some([file |-> "unknown", line |-> None, column |-> None,
            function |-> Some(<<"0x", 256>>)]),
      Some([file |-> "lib.rs", line |-> Some(12), column |-> Some(0),
            function |-> None]) }
RoundTripHotPaths ==
    { [stack |-> <<"main", "execute">>, gas |-> g, percentage |-> pc,
       source_hint |-> h]
        : g \in {0, U64Max}, pc \in {F64Zero, F64(100, 3)},
          h \in RoundTripHints }
RoundTripHotPathLists ==
    { <<>> } \cup { <<hp>> : hp \in RoundTripHotPaths }
    \cup { <<a, b>> : a \in {hp \in RoundTripHotPaths : hp.gas = U64Max},
                      b \in {hp \in RoundTripHotPaths : hp.gas = 0
                                                        /\ hp.percentage = F64Zero} }
RoundTripStacks ==
    { None, Some(<<>>),
      Some(<<CollapsedStack(<<"main", "execute">>, U64Max, Some(256)),
             CollapsedStack(<<"main", "storage">>, 0, None)>>) }
RoundTripProfiles ==
    { [version |-> "1.0.0", transaction_hash |-> "0xtest123",
       total_gas |-> g,
       hostio_summary |-> [total_calls |-> 10, by_type |-> bt,
                           total_hostio_gas |-> 5000],
       hot_paths |-> hps, all_stacks |-> st,
       generated_at |-> "2024-01-01T00:00:00Z"]
        : g \in {0, U64Max}, bt \in ProfileByTypeMaps,
          hps \in RoundTripHotPathLists, st \in RoundTripStacks }

InitRoundTrip ==
    /\ overflow_checks \in BOOLEAN
    /\ \E profile \in RoundTripProfiles :
         profile_io = [phase |-> "write", profile |-> profile, file |-> None,
                       written |-> Err("pending"), opened |-> FALSE,
                       loaded |-> Err("pending")]
    /\ builder = Unused
    /\ metrics = Unused
    /\ delta = Unused
    /\ hostio = Unused
    /\ hotpaths = Unused
    /\ diff = Unused
    /\ thresholds = Unused
    /\ distribution = Unused
    /\ parse = Unused
    /\ command = Unused
    /\ flame = Unused
    /\ analysis = Unused

NextRoundTrip == WriteProfileFile \/ ReadProfileFile

SpecRoundTrip == InitRoundTrip /\ [][NextRoundTrip]_vars

(***************************************************************************)
(* Properties of write_profile and read_profile                            *)
(***************************************************************************)
\* the file was written and then read
WrittenAndRead == profile_io.phase = "done" /\ profile_io.opened

\* the objects of the hot paths in the file
FileHotPaths == profile_io.file[1].val["hot_paths"].val

RootLabel == "root"

\* Node::new / DiffNode::new
NodeNew(name) == [name |-> name, value |-> 0, pc |-> None]
DiffNodeNew(name) == [name |-> name, baseline_value |-> 0, target_value |-> 0]

\* the name of the node at a path
NameAt(path) == IF path = <<>> THEN RootLabel ELSE path[Len(path)]

\* the paths of the nodes Node::insert visits for a stack: the node itself
\* and one child per part
Visited(stack) == {SubSeq(stack, 1, k) : k \in 0..Len(stack)}

\* Node::insert(stack, value, pc) on the root, when no addition overflows
NodeInsert(tree, stack, value, pc) ==
    [path \in DOMAIN tree \cup Visited(stack) |->
        LET node == IF path \in DOMAIN tree THEN tree[path]
                    ELSE NodeNew(NameAt(path))
        IN  IF path \in Visited(stack)
            THEN [node EXCEPT !.value = WrapU64(node.value + value),
                              !.pc = IF pc # None THEN pc ELSE node.pc]
            ELSE node]

\* DiffNode::insert_baseline(stack, value) on the root
InsertBaseline(tree, stack, value) ==
    [path \in DOMAIN tree \cup Visited(stack) |->
        LET node == IF path \in DOMAIN tree THEN tree[path]
                    ELSE DiffNodeNew(NameAt(path))
        IN  IF path \in Visited(stack)
            THEN [node EXCEPT
                    !.baseline_value = WrapU64(node.baseline_value + value)]
            ELSE node]

\* DiffNode::insert_target(stack, value) on the root
InsertTarget(tree, stack, value) ==
    [path \in DOMAIN tree \cup Visited(stack) |->
        LET node == IF path \in DOMAIN tree THEN tree[path]
                    ELSE DiffNodeNew(NameAt(path))
        IN  IF path \in Visited(stack)
            THEN [node EXCEPT
                    !.target_value = WrapU64(node.target_value + value)]
            ELSE node]

\* TRUE when one of the `+=` of an insertion overflows
InsertOverflows(tree, stack, value, field) ==
    \E path \in Visited(stack) \cap DOMAIN tree :
        tree[path][field] + value > U64Max

\* "Skip redundant root if present"
SkipRedundantRoot(parts) ==
    IF parts # <<>> /\ Head(parts) = RootLabel THEN Tail(parts) ELSE parts

\* generate_flamegraph: the EmptyStacks check and one turn of "1. Build Tree"
BuildTree ==
    /\ flame.mode = "single"
    /\ flame.phase = "build"
    /\ IF flame.stacks = <<>>
       THEN flame' = [flame EXCEPT !.phase = "err"]
       ELSE LET stack == flame.stacks[flame.inserted + 1]
                stack_parts == stack.stack
            IN  IF /\ InsertOverflows(flame.tree, stack_parts, stack.weight,
                                      "value")
                   /\ overflow_checks
                THEN flame' = [flame EXCEPT !.phase = Panic]
                ELSE flame' =
                       [flame EXCEPT
                          !.tree = NodeInsert(flame.tree, stack_parts,
                                              stack.weight, stack.last_pc),
                          !.inserted = flame.inserted + 1,
                          !.phase = IF flame.inserted + 1 = Len(flame.stacks)
                                    THEN "built" ELSE "build"]
    /\ UNCHANGED <<overflow_checks, builder, metrics, delta, hostio, hotpaths,
                   diff, thresholds, distribution, parse, command, profile_io,
                   analysis>>

\* generate_diff_flamegraph: one turn of the baseline loop of "1. Build
\* Merged Tree"
BuildMergedTreeBaseline ==
    /\ flame.mode = "diff"
    /\ flame.phase = "build"
    /\ flame.inserted < Len(flame.stacks)
    /\ LET stack == flame.stacks[flame.inserted + 1]
           parts == SkipRedundantRoot(stack.stack)
       IN  IF /\ InsertOverflows(flame.tree, parts, stack.weight,
                                 "baseline_value")
              /\ overflow_checks
           THEN flame' = [flame EXCEPT !.phase = Panic]
           ELSE flame' =
                  [flame EXCEPT
                     !.tree = InsertBaseline(flame.tree, parts, stack.weight),
                     !.inserted = flame.inserted + 1,
                     !.phase = IF /\ flame.inserted + 1 = Len(flame.stacks)
                                  /\ flame.target_stacks = <<>>
                               THEN "built" ELSE "build"]
    /\ UNCHANGED <<overflow_checks, builder, metrics, delta, hostio, hotpaths,
                   diff, thresholds, distribution, parse, command, profile_io,
                   analysis>>

\* generate_diff_flamegraph: one turn of the target loop
BuildMergedTreeTarget ==
    /\ flame.mode = "diff"
    /\ flame.phase = "build"
    /\ flame.inserted = Len(flame.stacks)
    /\ flame.target_inserted < Len(flame.target_stacks)
    /\ LET stack == flame.target_stacks[flame.target_inserted + 1]
           parts == SkipRedundantRoot(stack.stack)
       IN  IF /\ InsertOverflows(flame.tree, parts, stack.weight,
                                 "target_value")
              /\ overflow_checks
           THEN flame' = [flame EXCEPT !.phase = Panic]
           ELSE flame' =
                  [flame EXCEPT
                     !.tree = InsertTarget(flame.tree, parts, stack.weight),
                     !.target_inserted = flame.target_inserted + 1,
                     !.phase = IF flame.target_inserted + 1
                                     = Len(flame.target_stacks)
                               THEN "built" ELSE "build"]
    /\ UNCHANGED <<overflow_checks, builder, metrics, delta, hostio, hotpaths,
                   diff, thresholds, distribution, parse, command, profile_io,
                   analysis>>

\* the inputs: collapsed stacks
FlamePaths ==
    { <<"main">>, <<"main", "storage">>, <<RootLabel, "main">>,
      <<RootLabel, RootLabel, "main">> }
FlameWeights == {1, 23, U64Max}
FlameStacks ==
    {CollapsedStack(path, w, LastPcOf(path)) : path \in FlamePaths,
                                               w \in FlameWeights}
FlameListsUpTo(n) == UNION {[1..m -> FlameStacks] : m \in 0..n}

InitFlame ==
    /\ overflow_checks \in BOOLEAN
    /\ \/ \E stacks \in FlameListsUpTo(MaxStacks) :
            flame = [mode |-> "single", phase |-> "build", stacks |-> stacks,
                     target_stacks |-> <<>>, inserted |-> 0,
                     target_inserted |-> 0,
                     tree |-> [path \in {<<>>} |-> NodeNew(RootLabel)]]
       \/ \E baseline \in FlameListsUpTo(1), target \in FlameListsUpTo(2) :
            flame = [mode |-> "diff", phase |-> "build", stacks |-> baseline,
                     target_stacks |-> target, inserted |-> 0,
                     target_inserted |-> 0,
                     tree |-> [path \in {<<>>} |-> DiffNodeNew(RootLabel)]]
    /\ builder = Unused
    /\ metrics = Unused
    /\ delta = Unused
    /\ hostio = Unused
    /\ hotpaths = Unused
    /\ diff = Unused
    /\ thresholds = Unused
    /\ distribution = Unused
    /\ parse = Unused
    /\ command = Unused
    /\ profile_io = Unused
    /\ analysis = Unused

NextFlame == BuildTree \/ BuildMergedTreeBaseline \/ BuildMergedTreeTarget

SpecFlame == InitFlame /\ [][NextFlame]_vars

(***************************************************************************)
(* Properties of the flame tree                                            *)
(***************************************************************************)
\* a tree is being built or has been built
HasTree == flame.phase \in {"build", "built"}

\* the path a stack is inserted at, as the claims describe it
PathWithoutLeadingRoot(stack) ==
    IF stack.stack # <<>> /\ Head(stack.stack) = RootLabel
    THEN Tail(stack.stack) ELSE stack.stack

\* the paths handed to the insertion, in the mode of the tree
InsertedPath(stack) ==
    IF flame.mode = "diff" THEN SkipRedundantRoot(stack.stack) ELSE stack.stack

\* path is a prefix of (or equal to) the other path
IsPrefix(path, other) ==
    Len(path) <= Len(other) /\ SubSeq(other, 1, Len(path)) = path

\* the sum of the weights of the first n stacks that pass through or end at
\* the node at path
RECURSIVE WeightThrough(_, _, _)
WeightThrough(stacks, n, path) ==
    IF n = 0 THEN 0
    ELSE WeightThrough(stacks, n - 1, path)
         + (IF IsPrefix(path, InsertedPath(stacks[n])) THEN stacks[n].weight
            ELSE 0)

\* the paths of the children of the node at path
ChildrenOf(path) ==
    {child \in DOMAIN flame.tree :
        Len(child) = Len(path) + 1 /\ IsPrefix(path, child)}

\* the sum of f over a finite set of paths
RECURSIVE SumOverPaths(_, _)
SumOverPaths(paths, f) ==
    IF paths = {} THEN 0
    ELSE LET p == CHOOSE q \in paths : TRUE
         IN  f[p] + SumOverPaths(paths \ {p}, f)

\* C24 (as stated): after any number of insertions the weight of every node
\* (in comparative mode its baseline weight and its target weight, each on
\* its own) is the sum of the weights of the inserted paths that pass
\* through or end at it; so the weight of the root is the total of the
\* inserted weights and no node weighs less than its children together.
C24_NodeWeightIsSumOfPaths ==
    HasTree =>
        \A path \in DOMAIN flame.tree :
            IF flame.mode = "single"
            THEN /\ flame.tree[path].value =
                       WeightThrough(flame.stacks, flame.inserted, path)
                 /\ flame.tree[path].value >=
                       SumOverPaths(ChildrenOf(path),
                                    [c \in ChildrenOf(path) |->
                                        flame.tree[c].value])
            ELSE /\ flame.tree[path].baseline_value =
                       WeightThrough(flame.stacks, flame.inserted, path)
                 /\ flame.tree[path].target_value =
                       WeightThrough(flame.target_stacks,
                                     flame.target_inserted, path)
                 /\ flame.tree[path].baseline_value >=
                       SumOverPaths(ChildrenOf(path),
                                    [c \in ChildrenOf(path) |->
                                        flame.tree[c].baseline_value])
                 /\ flame.tree[path].target_value >=
                       SumOverPaths(ChildrenOf(path),
                                    [c \in ChildrenOf(path) |->
                                        flame.tree[c].target_value])

\* the stacks inserted so far
InsertedStacks ==
    {flame.stacks[i] : i \in 1..flame.inserted}
    \cup {flame.target_stacks[i] : i \in 1..flame.target_inserted}

\* C25 (as stated): in both modes a stack whose first part is `root` is
\* inserted without that part and with its later parts kept, and the root
\* node has no child labelled `root`.
C25_LeadingRootSkipped ==
    HasTree =>
        /\ \A stack \in InsertedStacks :
              PathWithoutLeadingRoot(stack) \in DOMAIN flame.tree
        /\ <<RootLabel>> \notin DOMAIN flame.tree

(***************************************************************************)
(* diff/analyzer.rs : analyze_storage_tax                                  *)
(***************************************************************************)
\* the segment names of the vocabulary that contain the text
SegmentsContaining(text) ==
    CASE text = "storage_load" -> {"storage_load_bytes32"}
      [] text = "storage_store" -> {"storage_store_bytes32"}
      [] text = "storage_cache" -> {"storage_cache"}
      [] OTHER -> {}

\* stack.stack.contains(text), for a text without `;`
Contains(stack, text) ==
    \E i \in DOMAIN stack : stack[i] \in SegmentsContaining(text)

\* StorageStats { cold_read_gas: 0, warm_read_gas: 0, write_gas: 0, cold_count: 0 }
StorageStatsNew ==
    [cold_read_gas |-> 0, warm_read_gas |-> 0, write_gas |-> 0,
     cold_count |-> 0]

\* a cold read only above the per-read weight
IsColdReadAbove(stack) == stack.weight > 2000

\* `if stack.weight >= 2000`
IsColdRead(stack) == stack.weight >= 2000

\* the field of the stats a stack is added to, or none
StorageField(stack) ==
    IF Contains(stack.stack, "storage_load")
    THEN IF IsColdRead(stack) THEN "cold_read_gas" ELSE "warm_read_gas"
    ELSE IF \/ Contains(stack.stack, "storage_store")
            \/ Contains(stack.stack, "storage_cache")
         THEN "write_gas"
         ELSE NoValue

\* collect_storage_stats: one turn of `for stack in stacks`
CollectStorageStats ==
    /\ analysis.phase = "collect"
    /\ analysis.idx <= Len(analysis.stacks)
    /\ LET stack == analysis.stacks[analysis.idx]
           stats == analysis.stats
           field == StorageField(stack)
       IN  IF field = NoValue
           THEN analysis' = [analysis EXCEPT !.idx = analysis.idx + 1]
           ELSE IF overflow_checks /\ stats[field] + stack.weight > U64Max
           THEN analysis' = [analysis EXCEPT !.phase = Panic]
           ELSE analysis' =
                  [analysis EXCEPT
                     !.idx = analysis.idx + 1,
                     !.stats =
                        [stats EXCEPT
                           ![field] = WrapU64(stats[field] + stack.weight),
                           !.cold_count =
                              IF field = "cold_read_gas"
                              THEN stats.cold_count + 1
                              ELSE stats.cold_count]]
    /\ UNCHANGED <<overflow_checks, builder, metrics, delta, hostio, hotpaths,
                   diff, thresholds, distribution, parse, command, profile_io,
                   flame>>

\* (total_storage_gas as f64 / total_gas as f64) * 100.0, or 0.0
ImpactPct(total_storage_gas, total_gas) ==
    IF total_gas > 0 THEN F64(total_storage_gas * 100, total_gas)
    ELSE F64Zero

\* cold_read_gas / (cold_read_gas + warm_read_gas).max(1) * 100.0
ColdTaxPct(stats) ==
    LET reads == WrapU64(stats.cold_read_gas + stats.warm_read_gas)
    IN  F64(stats.cold_read_gas * 100, IF reads < 1 THEN 1 ELSE reads)

\* the severity of the cold-tax insight
ColdTaxSeverity(impact_pct) ==
    IF F64Gt(impact_pct, F64(15, 1)) THEN "High"
    ELSE IF F64Gt(impact_pct, F64(5, 1)) THEN "Medium"
    ELSE "Low"

\* generate_cold_tax_insight: the insights it pushes
GenerateColdTaxInsight(stats, impact_pct) ==
    LET cold_tax_pct == ColdTaxPct(stats)
    IN  IF stats.cold_count > 0 /\ F64Gt(cold_tax_pct, F64(50, 1))
        THEN <<[category |-> "Storage",
                description |->
                   [cold_tax_pct |-> cold_tax_pct,
                    impact_pct |-> impact_pct,
                    cold_count |-> stats.cold_count,
                    read_suffix |-> IF stats.cold_count = 1 THEN "read"
                                    ELSE "reads",
                    advice |-> stats.cold_count > 3],
                severity |-> ColdTaxSeverity(impact_pct),
                tag |-> "storage_tax"]>>
        ELSE <<>>

\* generate_write_impact_insight: the insights it pushes
GenerateWriteImpactInsight(stats, total_gas) ==
    LET write_impact_pct == F64(stats.write_gas * 100, total_gas)
    IN  IF /\ stats.write_gas > 5000
           /\ total_gas > 0
           /\ F64Gt(write_impact_pct, F64(10, 1))
        THEN <<[category |-> "Storage",
                description |-> [write_impact_pct |-> write_impact_pct],
                severity |-> "Medium",
                tag |-> "storage_write_impact"]>>
        ELSE <<>>

\* analyze_storage_tax after collect_storage_stats has returned
AnalyzeStorageTax ==
    /\ analysis.phase = "collect"
    /\ analysis.idx > Len(analysis.stacks)
    /\ LET stats == analysis.stats
           reads == stats.cold_read_gas + stats.warm_read_gas
           sum == WrapU64(reads) + stats.write_gas
           total_storage_gas == WrapU64(sum)
           impact_pct == ImpactPct(total_storage_gas, analysis.total_gas)
       IN  IF overflow_checks /\ (reads > U64Max \/ sum > U64Max)
           THEN analysis' = [analysis EXCEPT !.phase = Panic]
           ELSE IF total_storage_gas = 0
           THEN analysis' = [analysis EXCEPT !.phase = "done"]
           ELSE analysis' =
                  [analysis EXCEPT
                     !.phase = "done",
                     !.impact_pct = impact_pct,
                     !.insights =
                        GenerateColdTaxInsight(stats, impact_pct)
                        \o GenerateWriteImpactInsight(stats,
                                                      analysis.total_gas)]
    /\ UNCHANGED <<overflow_checks, builder, metrics, delta, hostio, hotpaths,
                   diff, thresholds, distribution, parse, command, profile_io,
                   flame>>

\* the stacks of the profiles analysed: warm and cold reads, a read of
\* exactly the per-read weight, a write, a stack that is no storage access
AnalysisStacks ==
    {[stack |-> <<"main", "storage_load_bytes32">>, weight |-> 1999],
     [stack |-> <<"main", "storage_load_bytes32">>, weight |-> 2000],
     [stack |-> <<"storage_load_bytes32">>, weight |-> U64Max],
     [stack |-> <<"main", "storage_store_bytes32">>, weight |-> 6000],
     [stack |-> <<"main", "storage_cache">>, weight |-> 300],
     [stack |-> <<"main", "keccak">>, weight |-> 3000]}

AnalysisListsUpTo(n) == UNION {[1..m -> AnalysisStacks] : m \in 0..n}

AnalysisTotalGas == {0, 20000, 1000000}

InitAnalysis ==
    /\ overflow_checks \in BOOLEAN
    /\ \E stacks \in AnalysisListsUpTo(MaxStacks + 1),
          total_gas \in AnalysisTotalGas :
          analysis = [phase |-> "collect", stacks |-> stacks,
                      total_gas |-> total_gas, idx |-> 1,
                      stats |-> StorageStatsNew, impact_pct |-> F64Zero,
                      insights |-> <<>>]
    /\ builder = Unused
    /\ metrics = Unused
    /\ delta = Unused
    /\ hostio = Unused
    /\ hotpaths = Unused
    /\ diff = Unused
    /\ thresholds = Unused
    /\ distribution = Unused
    /\ parse = Unused
    /\ command = Unused
    /\ profile_io = Unused
    /\ flame = Unused

NextAnalysis == CollectStorageStats \/ AnalyzeStorageTax

SpecAnalysis == InitAnalysis /\ [][NextAnalysis]_vars

(***************************************************************************)
(* Properties of analyze_storage_tax                                       *)
(***************************************************************************)
AnalysisDone == analysis.phase = "done"

\* a cold-tax insight was pushed
ColdTaxEmitted ==
    \E i \in DOMAIN analysis.insights :
        analysis.insights[i].tag = "storage_tax"

\* the weight of the storage reads of the list that are cold (cold = TRUE)
\* or warm (cold = FALSE), as a u64 sum
RECURSIVE ReadGas(_, _)
ReadGas(stacks, cold) ==
    IF stacks = <<>> THEN 0
    ELSE LET stack == Head(stacks)
             counted == /\ "storage_load_bytes32" \in
                             {stack.stack[i] : i \in DOMAIN stack.stack}
                        /\ (stack.weight >= 2000) = cold
         IN  WrapU64(ReadGas(Tail(stacks), cold)
                     + (IF counted THEN stack.weight ELSE 0))

\* cold reads are more than 50% of the read cost accumulated
ColdReadsDominate ==
    LET cold == ReadGas(analysis.stacks, TRUE)
        warm == ReadGas(analysis.stacks, FALSE)
        reads == WrapU64(cold + warm)
    IN  cold * 100 > 50 * (IF reads = 0 THEN 1 ELSE reads)

\* C28 (as stated): a cold-tax insight is emitted only when cold reads are
\* more than 50% of the read cost and the storage cost impact exceeds a
\* minimum share of the total cost -- read with the smaller of the two
\* impact bounds the function has, 5%; with dominating cold reads and an
\* impact at or below it there is no cold-tax insight.
C28_ColdTaxNeedsImpact ==
    (AnalysisDone /\ ColdTaxEmitted) =>
        /\ ColdReadsDominate
        /\ F64Gt(analysis.impact_pct, F64(5, 1))

\* C28 (amended): when analyze_storage_tax returns, a cold-tax insight is
\* emitted exactly when the storage cost is not zero and cold reads (reads
\* of weight 2000 or more) are more than 50% of the read cost accumulated;
\* the impact only selects the severity -- High above 15%, Medium above 5%,
\* Low otherwise -- so dominating cold reads of small impact still give an
\* insight, of severity Low.
C28_ColdTaxWithoutMinimum ==
    AnalysisDone =>
        /\ ColdTaxEmitted <=>
              /\ ColdReadsDominate
              /\ WrapU64(ReadGas(analysis.stacks, TRUE)
                         + ReadGas(analysis.stacks, FALSE)
                         + analysis.stats.write_gas) # 0
        /\ \A i \in DOMAIN analysis.insights :
              analysis.insights[i].tag = "storage_tax" =>
                 analysis.insights[i].severity =
                    IF analysis.impact_pct.num > 15 * analysis.impact_pct.den
                    THEN "High"
                    ELSE IF analysis.impact_pct.num >
                               5 * analysis.impact_pct.den
                    THEN "Medium"
                    ELSE "Low"

\* one read of exactly weight 2000 in a profile of total gas 1000000: the
\* impact is 0.2% and a Low insight was emitted
C28_Witness ==
    /\ AnalysisDone
    /\ analysis.total_gas = 1000000
    /\ analysis.stacks =
          <<[stack |-> <<"main", "storage_load_bytes32">>, weight |-> 2000]>>
    /\ analysis.impact_pct = F64(1, 5)
    /\ ColdTaxEmitted
    /\ analysis.insights[1].severity = "Low"

====
